---- MODULE Spec2Model ----
(***************************************************************************)
(* Settings service (modules/settings_service): the domain Service over    *)
(* the SeaORM repositories, the database schema of the migrations and the  *)
(* in-memory lock table.                                                   *)
(*                                                                         *)
(* Strings whose characters the code inspects (type identifiers, object   *)
(* ids) are sequences of one-character strings.  Option<T> is a set with   *)
(* at most one element: None is {} and Some(x) is {x}.                     *)
(***************************************************************************)
EXTENDS Integers, Sequences, FiniteSets, TLC

VARIABLES
    types,      \* table cti_registry: set of rows, primary key `type`
    settings,   \* table settings: set of rows, primary key (type, tenant_id, domain_object_id)
    locks,      \* Service.locks: HashMap<LockKey, bool>, a function on the locked keys
    now,        \* chrono::Utc::now(), in days
    last,       \* the call that has just returned, with its result ({} when idle)
    scope,      \* the identifiers the callers of this run use, and the days it lasts
    inflight,   \* the call each concurrent caller is in, by caller
    tenant_hierarchy   \* MockTenantHierarchyClient.hierarchy: HashMap<Uuid, Option<Uuid>>

vars == <<types, settings, locks, now, last, scope, inflight, tenant_hierarchy>>

-----------------------------------------------------------------------------
(* Bounds and the universe of inputs *)

MaxTime == 1
MaxRows == 2
MaxLocks == 1

GTS_A == <<"g", "t", "s", ".", "a", "~", "1">>
GTS_B == <<"g", "t", "s", ".", "b", "~", "2">>
OBJ_GENERIC == <<"g", "e", "n", "e", "r", "i", "c">>
OBJ_APP == <<"a", "p", "p">>

DATA_NAME == [name |-> "x"]
DATA_AGE == [age |-> "1"]

\* the runs explored: two tenants sharing object ids, two type identifiers
\* written with two documents, and a run over several days
TenantScope ==
    [types |-> {GTS_A}, tenants |-> {"t1", "t2"}, objects |-> {OBJ_GENERIC, OBJ_APP},
     data |-> {DATA_NAME}, days |-> 0]
TypeScope ==
    [types |-> {GTS_A, GTS_B}, tenants |-> {"t1"}, objects |-> {OBJ_GENERIC},
     data |-> {DATA_NAME, DATA_AGE}, days |-> 0]
TimeScope ==
    [types |-> {GTS_A}, tenants |-> {"t1"}, objects |-> {OBJ_GENERIC, OBJ_APP},
     data |-> {DATA_NAME}, days |-> MaxTime]
Scopes == {TenantScope, TypeScope, TimeScope}

TypeIds == scope.types
Tenants == scope.tenants
Objects == scope.objects
Data == scope.data

\* {"type":"object","properties":{"name":{"type":"string"}},"required":["name"]}
SCHEMA_NAME == [required |-> {"name"}, compiles |-> TRUE]
\* a document that is not a JSON Schema, e.g. {"type":"no-such-type"}
SCHEMA_BROKEN == [required |-> {}, compiles |-> FALSE]

-----------------------------------------------------------------------------
(* contract/model.rs *)

None == {}
Some(x) == {x}

\* unwrap of an Option known to be Some
Unwrap(o) == CHOOSE x \in o : TRUE

Setting(t, tenant, obj, data, created, updated, deleted) ==
    [type |-> t, tenant_id |-> tenant, domain_object_id |-> obj, data |-> data,
     created_at |-> created, updated_at |-> updated, deleted_at |-> deleted]

GtsType(t, audit, notification, retention, inheritable, overwritable, barrier, schema) ==
    [type |-> t,
     domain_type |-> "Tenant",
     audit |-> audit,
     notification |-> notification,
     retention_period |-> retention,
     is_value_inheritable |-> inheritable,
     is_value_overwritable |-> overwritable,
     is_barrier_inheritance |-> barrier,
     enable_generic |-> TRUE,
     is_mfa_required |-> FALSE,
     schema |-> schema]

AuthContext_non_admin == [is_root_admin |-> FALSE]
AuthContext_root_admin == [is_root_admin |-> TRUE]

LockKey(t, tenant, obj) == <<t, tenant, obj>>

-----------------------------------------------------------------------------
(* anyhow::Result of a repository call: val is a set (rows, definitions or *)
(* {} for unit), flag carries a bool answer.                               *)

DbOk(v) == [ok |-> TRUE, val |-> v, flag |-> FALSE]
DbBool(b) == [ok |-> TRUE, val |-> {}, flag |-> b]
DbErr == [ok |-> FALSE, val |-> {}, flag |-> FALSE]

-----------------------------------------------------------------------------
(* infra/storage/mapper.rs *)

format_event_target(target) ==
    CASE target = "Self_" -> "SELF"
      [] target = "Subroot" -> "SUBROOT"
      [] target = "None" -> "NONE"

parse_event_target(s) ==
    CASE s = "SELF" -> "Self_"
      [] s = "SUBROOT" -> "Subroot"
      [] s = "NONE" -> "None"
      [] OTHER -> "None"

format_domain_type(d) ==
    CASE d = "Tenant" -> "TENANT"
      [] d = "Storage" -> "STORAGE"
      [] d = "User" -> "USER"
      [] d = "Agent" -> "AGENT"
      [] d = "Application" -> "APPLICATION"
      [] d = "Brand" -> "BRAND"
      [] d = "Resource" -> "RESOURCE"
      [] d = "Global" -> "GLOBAL"

parse_domain_type(s) ==
    CASE s = "TENANT" -> "Tenant"
      [] s = "STORAGE" -> "Storage"
      [] s = "USER" -> "User"
      [] s = "AGENT" -> "Agent"
      [] s = "APPLICATION" -> "Application"
      [] s = "BRAND" -> "Brand"
      [] s = "RESOURCE" -> "Resource"
      [] s = "GLOBAL" -> "Global"
      [] OTHER -> "Tenant"

\* From<&GtsType> for entity::gts_type::ActiveModel: the traits become a JSON column
GtsTypeToEntity(g) ==
    [type |-> g.type,
     traits |-> [domain_type |-> format_domain_type(g.domain_type),
                 events |-> [audit |-> format_event_target(g.audit),
                             notification |-> format_event_target(g.notification)],
                 options |-> [retention_period |-> g.retention_period,
                              is_value_inheritable |-> g.is_value_inheritable,
                              is_value_overwritable |-> g.is_value_overwritable,
                              is_barrier_inheritance |-> g.is_barrier_inheritance,
                              enable_generic |-> g.enable_generic,
                              is_mfa_required |-> g.is_mfa_required]],
     schema |-> g.schema]

\* TryFrom<entity::gts_type::Model> for GtsType
GtsTypeFromEntity(e) ==
    [type |-> e.type,
     domain_type |-> parse_domain_type(e.traits.domain_type),
     audit |-> parse_event_target(e.traits.events.audit),
     notification |-> parse_event_target(e.traits.events.notification),
     retention_period |-> e.traits.options.retention_period,
     is_value_inheritable |-> e.traits.options.is_value_inheritable,
     is_value_overwritable |-> e.traits.options.is_value_overwritable,
     is_barrier_inheritance |-> e.traits.options.is_barrier_inheritance,
     enable_generic |-> e.traits.options.enable_generic,
     is_mfa_required |-> e.traits.options.is_mfa_required,
     schema |-> e.schema]

-----------------------------------------------------------------------------
(* infra/storage/repositories.rs: SeaOrmSettingsRepository over the table  *)
(* `settings`.  Every operator takes the table contents; `fail` says that  *)
(* the database call itself fails (connection error).                      *)

SameKey(r, t, tenant, obj) ==
    r.type = t /\ r.tenant_id = tenant /\ r.domain_object_id = obj

\* .one(): at most one of the matching rows
One(rows) == IF rows = {} THEN None ELSE Some(CHOOSE r \in rows : TRUE)

\* a lookup that forgets the tenant column of the key
find_by_key_any_tenant(rows, t, tenant, obj, fail) ==
    IF fail THEN DbErr
    ELSE DbOk(One({r \in rows : /\ r.type = t
                                /\ r.domain_object_id = obj
                                /\ r.deleted_at = None}))

find_by_key(rows, t, tenant, obj, fail) ==
    IF fail THEN DbErr
    ELSE DbOk(One({r \in rows : SameKey(r, t, tenant, obj) /\ r.deleted_at = None}))

\* tenant is an Option; the order_by of the query fixes only the order of the answer
find_by_type(rows, t, tenant, fail) ==
    IF fail THEN DbErr
    ELSE DbOk({r \in rows : /\ r.type = t
                            /\ r.deleted_at = None
                            /\ (tenant = None \/ r.tenant_id \in tenant)})

\* called with limit = u64::MAX and offset = 0 only
list_all(rows, fail) ==
    IF fail THEN DbErr
    ELSE DbOk({r \in rows : r.deleted_at = None})

\* a delete that removes the row instead of stamping it
soft_delete_removes_row(rows, t, tenant, obj, clock, fail) ==
    IF fail THEN [res |-> DbErr, rows |-> rows]
    ELSE [res |-> DbOk({}),
          rows |-> {r \in rows : ~SameKey(r, t, tenant, obj)}]

\* UPDATE settings SET deleted_at = now WHERE <key>
soft_delete(rows, t, tenant, obj, clock, fail) ==
    IF fail THEN [res |-> DbErr, rows |-> rows]
    ELSE [res |-> DbOk({}),
          rows |-> {IF SameKey(r, t, tenant, obj)
                       THEN [r EXCEPT !.deleted_at = Some(clock)]
                       ELSE r : r \in rows}]

\* DELETE FROM settings WHERE <key>
hard_delete(rows, t, tenant, obj, fail) ==
    IF fail THEN [res |-> DbErr, rows |-> rows]
    ELSE [res |-> DbOk({}),
          rows |-> {r \in rows : ~SameKey(r, t, tenant, obj)}]

\* an INSERT into a table without the primary key
InsertSetting_without_primary_key(rows, typeRows, s) ==
    IF ~\E g \in typeRows : g.type = s.type
       THEN [res |-> DbErr, rows |-> rows]
       ELSE [res |-> DbOk({s}), rows |-> rows \cup {s}]

\* an INSERT into a table without the foreign key
InsertSetting_without_foreign_key(rows, typeRows, s) ==
    IF \E r \in rows : SameKey(r, s.type, s.tenant_id, s.domain_object_id)
       THEN [res |-> DbErr, rows |-> rows]
       ELSE [res |-> DbOk({s}), rows |-> rows \cup {s}]

\* INSERT INTO settings: primary key (type, tenant_id, domain_object_id) and
\* foreign key fk_settings_gts_type (type -> cti_registry.type)
InsertSetting(rows, typeRows, s) ==
    IF \/ \E r \in rows : SameKey(r, s.type, s.tenant_id, s.domain_object_id)
       \/ ~\E g \in typeRows : g.type = s.type
       THEN [res |-> DbErr, rows |-> rows]
       ELSE [res |-> DbOk({s}), rows |-> rows \cup {s}]

\* Entity::update(active): every column of the row with this key is Set;
\* no such row is DbErr::RecordNotUpdated
UpdateSetting(rows, s) ==
    IF ~\E r \in rows : SameKey(r, s.type, s.tenant_id, s.domain_object_id)
       THEN [res |-> DbErr, rows |-> rows]
       ELSE [res |-> DbOk({s}),
             rows |-> {r \in rows : ~SameKey(r, s.type, s.tenant_id, s.domain_object_id)}
                        \cup {s}]

\* an upsert that leaves an existing row as it is
upsert_without_update(rows, typeRows, s, clock, failFind, failWrite) ==
    IF failFind THEN [res |-> DbErr, rows |-> rows]
    ELSE LET existing == One({r \in rows :
                                SameKey(r, s.type, s.tenant_id, s.domain_object_id)})
         IN  IF failWrite THEN [res |-> DbErr, rows |-> rows]
             ELSE IF existing # None
                     THEN [res |-> DbOk(existing), rows |-> rows]
                     ELSE InsertSetting(rows, typeRows, s)

\* the existence query has no deleted_at filter; failFind and failWrite are the
\* failures of its two database calls
upsert(rows, typeRows, s, clock, failFind, failWrite) ==
    IF failFind THEN [res |-> DbErr, rows |-> rows]
    ELSE LET existing == One({r \in rows :
                                SameKey(r, s.type, s.tenant_id, s.domain_object_id)})
         IN  IF failWrite THEN [res |-> DbErr, rows |-> rows]
             ELSE IF existing # None
                     THEN UpdateSetting(rows, [s EXCEPT !.updated_at = clock])
                     ELSE InsertSetting(rows, typeRows, s)

-----------------------------------------------------------------------------
(* infra/storage/repositories.rs: SeaOrmGtsTypeRepository over the table   *)
(* `cti_registry` (rows are entity::gts_type::Model).                      *)

\* INSERT INTO cti_registry: primary key `type`
gts_create(typeRows, g, fail) ==
    IF fail \/ \E e \in typeRows : e.type = g.type
       THEN [res |-> DbErr, rows |-> typeRows]
       ELSE [res |-> DbOk({GtsTypeFromEntity(GtsTypeToEntity(g))}),
             rows |-> typeRows \cup {GtsTypeToEntity(g)}]

gts_find_by_type(typeRows, type_id, fail) ==
    IF fail THEN DbErr
    ELSE DbOk({GtsTypeFromEntity(e) : e \in One({e \in typeRows : e.type = type_id})})

gts_list_all(typeRows, fail) ==
    IF fail THEN DbErr
    ELSE DbOk({GtsTypeFromEntity(e) : e \in typeRows})

\* an UPDATE that leaves the schema column as it is
gts_update_keeps_schema(typeRows, g, fail) ==
    IF fail \/ ~\E e \in typeRows : e.type = g.type
       THEN [res |-> DbErr, rows |-> typeRows]
       ELSE [res |-> DbOk({GtsTypeFromEntity(GtsTypeToEntity(g))}),
             rows |-> {IF e.type = g.type
                          THEN [GtsTypeToEntity(g) EXCEPT !.schema = e.schema]
                          ELSE e : e \in typeRows}]

\* Entity::update(active_model): no row with this key is DbErr::RecordNotUpdated
gts_update(typeRows, g, fail) ==
    IF fail \/ ~\E e \in typeRows : e.type = g.type
       THEN [res |-> DbErr, rows |-> typeRows]
       ELSE [res |-> DbOk({GtsTypeFromEntity(GtsTypeToEntity(g))}),
             rows |-> {e \in typeRows : e.type # g.type} \cup {GtsTypeToEntity(g)}]

\* a DELETE on a table that no foreign key refers to
gts_delete_without_restrict(typeRows, rows, type_id, fail) ==
    IF fail
       THEN [res |-> DbErr, rows |-> typeRows]
       ELSE [res |-> DbOk({}), rows |-> {e \in typeRows : e.type # type_id}]

\* DELETE FROM cti_registry WHERE type = type_id; fk_settings_gts_type is
\* ON DELETE RESTRICT, so a type that settings rows refer to cannot be deleted
gts_delete(typeRows, rows, type_id, fail) ==
    IF fail \/ \E r \in rows : r.type = type_id
       THEN [res |-> DbErr, rows |-> typeRows]
       ELSE [res |-> DbOk({}), rows |-> {e \in typeRows : e.type # type_id}]

\* an existence query that never finds the row
gts_exists_never(typeRows, type_id, fail) ==
    IF fail THEN DbErr
    ELSE DbBool(FALSE)

gts_exists(typeRows, type_id, fail) ==
    IF fail THEN DbErr
    ELSE DbBool(Cardinality({e \in typeRows : e.type = type_id}) > 0)

-----------------------------------------------------------------------------
(* domain/validation.rs: validate_against_schema.  A JSON object is a      *)
(* function from its field names; a schema lists the required fields, and  *)
(* `compiles` says whether Validator::new accepts the document.            *)

\* a validator that accepts every instance
Satisfies_everything(data, schema) == TRUE

Satisfies(data, schema) == schema.required \subseteq DOMAIN data

\* "Ok", or the error kind
validate_against_schema(data, schema) ==
    IF ~schema.compiles THEN "Validation"
    ELSE IF ~Satisfies(data, schema) THEN "SchemaValidation"
    ELSE "Ok"

-----------------------------------------------------------------------------
(* domain/service.rs: results *)

\* what a Service method returns: err is "Ok" or the SettingsError variant,
\* reason tells the Conflict messages apart, the other fields carry the value
RetOk ==
    [err |-> "Ok", reason |-> "", subject |-> <<>>, settings |-> {}, gts |-> {},
     flag |-> FALSE, count |-> 0]

RetErr(kind, reason) == [RetOk EXCEPT !.err = kind, !.reason = reason]

\* SettingsError::InvalidGtsFormat { gts, details }
InvalidGtsFormat(gts, details) ==
    [RetErr("InvalidGtsFormat", details) EXCEPT !.subject = gts]
RetSettings(rows) == [RetOk EXCEPT !.settings = rows]
RetGts(defs) == [RetOk EXCEPT !.gts = defs]
RetFlag(b) == [RetOk EXCEPT !.flag = b]
RetCount(n) == [RetOk EXCEPT !.count = n]

\* the channels on which the EventPublisher of this run returns Err
Failing == IF "failing" \in DOMAIN scope THEN scope.failing ELSE {}

\* the state, the clock and the publisher a method runs on
World ==
    [types |-> types, settings |-> settings, locks |-> locks, now |-> now,
     failing |-> Failing]

\* the state a method leaves, its result and its calls of the EventPublisher
Outcome(w, ret, published) ==
    [types |-> w.types, settings |-> w.settings, locks |-> w.locks,
     ret |-> ret, published |-> published]

-----------------------------------------------------------------------------
(* domain/service.rs: helper methods *)

\* a registry check that takes every identifier for registered
validate_gts_type_exists_always(w, type_id, fail) ==
    LET r == gts_exists(w.types, type_id, fail)
    IN  IF ~r.ok THEN "Internal"
        ELSE "Ok"

\* "Ok" or the error kind
validate_gts_type_exists(w, type_id, fail) ==
    LET r == gts_exists(w.types, type_id, fail)
    IN  IF ~r.ok THEN "Internal"
        ELSE IF ~r.flag THEN "TypeNotRegistered"
        ELSE "Ok"

StartsWith(str, prefix) ==
    /\ Len(str) >= Len(prefix)
    /\ SubSeq(str, 1, Len(prefix)) = prefix

Contains(str, ch) == \E i \in 1..Len(str) : str[i] = ch

\* a format check that asks for the prefix only
validate_gts_format_prefix_only(gts) ==
    IF ~StartsWith(gts, <<"g", "t", "s", ".">>)
       THEN InvalidGtsFormat(gts, "GTS must start with 'gts.'")
    ELSE RetOk

\* RetOk, or the error
validate_gts_format(gts) ==
    IF ~StartsWith(gts, <<"g", "t", "s", ".">>)
       THEN InvalidGtsFormat(gts, "GTS must start with 'gts.'")
    ELSE IF ~Contains(gts, "~")
       THEN InvalidGtsFormat(gts, "GTS must contain '~' separator")
    ELSE RetOk

\* a lock check that never finds a read-only entry
IsReadOnly_never(lockTable, lock_key) == FALSE

\* if let Some(&read_only) = self.locks.read().get(&lock_key) { if read_only ..
IsReadOnly(lockTable, lock_key) ==
    lock_key \in DOMAIN lockTable /\ lockTable[lock_key]

\* a parent check that does not compare the object id
HasParentSetting_any_object(existing_settings, tenant_id, domain_object_id) ==
    \E s \in existing_settings : s.tenant_id # tenant_id

\* existing_settings.iter().any(|s| s.tenant_id != tenant_id && ..)
HasParentSetting(existing_settings, tenant_id, domain_object_id) ==
    \E s \in existing_settings :
        s.tenant_id # tenant_id /\ s.domain_object_id = domain_object_id

\* an overwrite policy that binds the root admin too
ChecksOverwritable_for_admin(auth_context, gts_type) ==
    ~gts_type.is_value_overwritable

\* !auth_context.is_root_admin && !gts_type.traits.options.is_value_overwritable
ChecksOverwritable(auth_context, gts_type) ==
    ~auth_context.is_root_admin /\ ~gts_type.is_value_overwritable

\* a dispatch that gives up after a publish call that failed
Publish_until_failure(failing, event, gts_type, tenant) ==
    LET audit == [channel |-> "audit", event |-> event, target |-> gts_type.audit,
                  tenant_id |-> tenant,
                  result |-> IF "audit" \in failing THEN "Err" ELSE "Ok"]
        notification == [channel |-> "notification", event |-> event,
                         target |-> gts_type.notification, tenant_id |-> tenant,
                         result |-> IF "notification" \in failing THEN "Err" ELSE "Ok"]
    IN  IF audit.result = "Err" THEN <<audit>> ELSE <<audit, notification>>

\* the two publish calls made for one event, in order, each with the Result
\* the publisher gives; an Err is logged and nothing else
Publish(failing, event, gts_type, tenant) ==
    << [channel |-> "audit", event |-> event, target |-> gts_type.audit,
        tenant_id |-> tenant,
        result |-> IF "audit" \in failing THEN "Err" ELSE "Ok"],
       [channel |-> "notification", event |-> event, target |-> gts_type.notification,
        tenant_id |-> tenant,
        result |-> IF "notification" \in failing THEN "Err" ELSE "Ok"] >>

-----------------------------------------------------------------------------
(* domain/events.rs: SettingEvent constructors (user_id is always None) *)

upserted(setting, is_new, clock) ==
    [kind |-> "SettingUpserted", setting_type |-> setting.type,
     tenant_id |-> setting.tenant_id, domain_object_id |-> setting.domain_object_id,
     data |-> setting.data, is_new |-> is_new, timestamp |-> clock]

deleted(setting_type, tenant_id, domain_object_id, clock) ==
    [kind |-> "SettingDeleted", setting_type |-> setting_type,
     tenant_id |-> tenant_id, domain_object_id |-> domain_object_id,
     timestamp |-> clock]

locked(setting_type, tenant_id, domain_object_id, read_only, clock) ==
    [kind |-> "SettingLocked", setting_type |-> setting_type,
     tenant_id |-> tenant_id, domain_object_id |-> domain_object_id,
     read_only |-> read_only, timestamp |-> clock]

-----------------------------------------------------------------------------
(* domain/service.rs: GTS type operations.  `fault` is the number of the   *)
(* store call of the method that fails, 0 for none.                        *)

get_gts_type(w, type_id, fault) ==
    LET r == gts_find_by_type(w.types, type_id, fault = 1)
    IN  IF ~r.ok THEN Outcome(w, RetErr("Internal", ""), <<>>)
        ELSE IF r.val = None THEN Outcome(w, RetErr("TypeNotRegistered", ""), <<>>)
        ELSE Outcome(w, RetGts(r.val), <<>>)

list_gts_types(w, fault) ==
    LET r == gts_list_all(w.types, fault = 1)
    IN  IF ~r.ok THEN Outcome(w, RetErr("Internal", ""), <<>>)
        ELSE Outcome(w, RetGts(r.val), <<>>)

register_gts_type(w, gts_type, fault) ==
    LET format == validate_gts_format(gts_type.type)
        present == gts_exists(w.types, gts_type.type, fault = 1)
        created == gts_create(w.types, gts_type, fault = 2)
    IN  IF format.err # "Ok" THEN Outcome(w, format, <<>>)
        ELSE IF ~present.ok THEN Outcome(w, RetErr("Internal", ""), <<>>)
        ELSE IF present.flag
                THEN Outcome(w, RetErr("Conflict", "GTS type already exists"), <<>>)
        ELSE IF ~created.res.ok THEN Outcome(w, RetErr("Internal", ""), <<>>)
        ELSE Outcome([w EXCEPT !.types = created.rows], RetGts(created.res.val), <<>>)

update_gts_type(w, gts_type, fault) ==
    LET format == validate_gts_format(gts_type.type)
        present == validate_gts_type_exists(w, gts_type.type, fault = 1)
        updated == gts_update(w.types, gts_type, fault = 2)
    IN  IF format.err # "Ok" THEN Outcome(w, format, <<>>)
        ELSE IF present # "Ok" THEN Outcome(w, RetErr(present, ""), <<>>)
        ELSE IF ~updated.res.ok THEN Outcome(w, RetErr("Internal", ""), <<>>)
        ELSE Outcome([w EXCEPT !.types = updated.rows], RetGts(updated.res.val), <<>>)

delete_gts_type(w, type_id, fault) ==
    LET present == validate_gts_type_exists(w, type_id, fault = 1)
        removed == gts_delete(w.types, w.settings, type_id, fault = 2)
    IN  IF present # "Ok" THEN Outcome(w, RetErr(present, ""), <<>>)
        ELSE IF ~removed.res.ok THEN Outcome(w, RetErr("Internal", ""), <<>>)
        ELSE Outcome([w EXCEPT !.types = removed.rows], RetOk, <<>>)

-----------------------------------------------------------------------------
(* domain/service.rs: setting operations *)

get_settings_by_type(w, setting_type, tenant_id, fault) ==
    LET present == validate_gts_type_exists(w, setting_type, fault = 1)
        found == find_by_type(w.settings, setting_type, tenant_id, fault = 2)
    IN  IF present # "Ok" THEN Outcome(w, RetErr(present, ""), <<>>)
        ELSE IF ~found.ok THEN Outcome(w, RetErr("Internal", ""), <<>>)
        ELSE Outcome(w, RetSettings(found.val), <<>>)

get_setting(w, setting_type, tenant_id, domain_object_id, fault) ==
    LET present == validate_gts_type_exists(w, setting_type, fault = 1)
        found == find_by_key(w.settings, setting_type, tenant_id, domain_object_id,
                             fault = 2)
    IN  IF present # "Ok" THEN Outcome(w, RetErr(present, ""), <<>>)
        ELSE IF ~found.ok THEN Outcome(w, RetErr("Internal", ""), <<>>)
        ELSE IF found.val = None THEN Outcome(w, RetErr("NotFound", "setting"), <<>>)
        ELSE Outcome(w, RetSettings(found.val), <<>>)

\* an upsert that checks the lock before it validates the data
upsert_setting_with_auth_lock_first(w, setting_type, tenant_id, domain_object_id, data, auth_context, fault) ==
    LET looked_up == get_gts_type(w, setting_type, fault)
        gts_type == Unwrap(looked_up.ret.gts)
        schema_check ==
            IF gts_type.schema # None
               THEN validate_against_schema(data, Unwrap(gts_type.schema))
               ELSE "Ok"
        lock_key == LockKey(setting_type, tenant_id, domain_object_id)
        is_read_only == ~auth_context.is_root_admin /\ IsReadOnly(w.locks, lock_key)
        checks_overwritable == ChecksOverwritable(auth_context, gts_type)
        existing_settings == find_by_type(w.settings, setting_type, None, fault = 2)
        has_parent_setting ==
            HasParentSetting(existing_settings.val, tenant_id, domain_object_id)
        setting == Setting(setting_type, tenant_id, domain_object_id, data,
                           w.now, w.now, None)
        is_new == ~find_by_key(w.settings, setting_type, tenant_id, domain_object_id,
                               fault = 3).ok
        result == upsert(w.settings, w.types, setting, w.now, fault = 4, fault = 5)
        written == [w EXCEPT !.settings = result.rows]
        for_events == gts_find_by_type(written.types, setting_type, fault = 6)
        published ==
            IF for_events.ok /\ for_events.val # None
               THEN Publish(w.failing, upserted(Unwrap(result.res.val), is_new, w.now),
                            Unwrap(for_events.val), tenant_id)
               ELSE <<>>
    IN  IF looked_up.ret.err # "Ok" THEN looked_up
        ELSE IF is_read_only
                THEN Outcome(w, RetErr("Conflict", "Setting is locked for compliance"), <<>>)
        ELSE IF schema_check # "Ok" THEN Outcome(w, RetErr(schema_check, ""), <<>>)
        ELSE IF checks_overwritable /\ ~existing_settings.ok
                THEN Outcome(w, RetErr("Internal", ""), <<>>)
        ELSE IF checks_overwritable /\ has_parent_setting
                THEN Outcome(w, RetErr("Conflict", "Setting is not overwritable"), <<>>)
        ELSE IF ~result.res.ok THEN Outcome(w, RetErr("Internal", ""), <<>>)
        ELSE Outcome(written, RetSettings(result.res.val), published)

\* an upsert that has written the row when the schema validation refuses it
upsert_setting_with_auth_writes_first(w, setting_type, tenant_id, domain_object_id, data, auth_context, fault) ==
    LET looked_up == get_gts_type(w, setting_type, fault)
        gts_type == Unwrap(looked_up.ret.gts)
        schema_check ==
            IF gts_type.schema # None
               THEN validate_against_schema(data, Unwrap(gts_type.schema))
               ELSE "Ok"
        lock_key == LockKey(setting_type, tenant_id, domain_object_id)
        is_read_only == ~auth_context.is_root_admin /\ IsReadOnly(w.locks, lock_key)
        checks_overwritable == ChecksOverwritable(auth_context, gts_type)
        existing_settings == find_by_type(w.settings, setting_type, None, fault = 2)
        has_parent_setting ==
            HasParentSetting(existing_settings.val, tenant_id, domain_object_id)
        setting == Setting(setting_type, tenant_id, domain_object_id, data,
                           w.now, w.now, None)
        is_new == ~find_by_key(w.settings, setting_type, tenant_id, domain_object_id,
                               fault = 3).ok
        result == upsert(w.settings, w.types, setting, w.now, fault = 4, fault = 5)
        written == [w EXCEPT !.settings = result.rows]
        for_events == gts_find_by_type(written.types, setting_type, fault = 6)
        published ==
            IF for_events.ok /\ for_events.val # None
               THEN Publish(w.failing, upserted(Unwrap(result.res.val), is_new, w.now),
                            Unwrap(for_events.val), tenant_id)
               ELSE <<>>
    IN  IF looked_up.ret.err # "Ok" THEN looked_up
        ELSE IF schema_check # "Ok" THEN Outcome(written, RetErr(schema_check, ""), <<>>)
        ELSE IF is_read_only
                THEN Outcome(w, RetErr("Conflict", "Setting is locked for compliance"), <<>>)
        ELSE IF checks_overwritable /\ ~existing_settings.ok
                THEN Outcome(w, RetErr("Internal", ""), <<>>)
        ELSE IF checks_overwritable /\ has_parent_setting
                THEN Outcome(w, RetErr("Conflict", "Setting is not overwritable"), <<>>)
        ELSE IF ~result.res.ok THEN Outcome(w, RetErr("Internal", ""), <<>>)
        ELSE Outcome(written, RetSettings(result.res.val), published)

upsert_setting_with_auth(w, setting_type, tenant_id, domain_object_id, data, auth_context, fault) ==
    LET looked_up == get_gts_type(w, setting_type, fault)
        gts_type == Unwrap(looked_up.ret.gts)
        schema_check ==
            IF gts_type.schema # None
               THEN validate_against_schema(data, Unwrap(gts_type.schema))
               ELSE "Ok"
        lock_key == LockKey(setting_type, tenant_id, domain_object_id)
        is_read_only == ~auth_context.is_root_admin /\ IsReadOnly(w.locks, lock_key)
        checks_overwritable == ChecksOverwritable(auth_context, gts_type)
        existing_settings == find_by_type(w.settings, setting_type, None, fault = 2)
        has_parent_setting ==
            HasParentSetting(existing_settings.val, tenant_id, domain_object_id)
        setting == Setting(setting_type, tenant_id, domain_object_id, data,
                           w.now, w.now, None)
        is_new == ~find_by_key(w.settings, setting_type, tenant_id, domain_object_id,
                               fault = 3).ok
        result == upsert(w.settings, w.types, setting, w.now, fault = 4, fault = 5)
        written == [w EXCEPT !.settings = result.rows]
        for_events == gts_find_by_type(written.types, setting_type, fault = 6)
        published ==
            IF for_events.ok /\ for_events.val # None
               THEN Publish(w.failing, upserted(Unwrap(result.res.val), is_new, w.now),
                            Unwrap(for_events.val), tenant_id)
               ELSE <<>>
    IN  IF looked_up.ret.err # "Ok" THEN looked_up
        ELSE IF schema_check # "Ok" THEN Outcome(w, RetErr(schema_check, ""), <<>>)
        ELSE IF is_read_only
                THEN Outcome(w, RetErr("Conflict", "Setting is locked for compliance"), <<>>)
        ELSE IF checks_overwritable /\ ~existing_settings.ok
                THEN Outcome(w, RetErr("Internal", ""), <<>>)
        ELSE IF checks_overwritable /\ has_parent_setting
                THEN Outcome(w, RetErr("Conflict", "Setting is not overwritable"), <<>>)
        ELSE IF ~result.res.ok THEN Outcome(w, RetErr("Internal", ""), <<>>)
        ELSE Outcome(written, RetSettings(result.res.val), published)

upsert_setting(w, setting_type, tenant_id, domain_object_id, data, fault) ==
    upsert_setting_with_auth(w, setting_type, tenant_id, domain_object_id, data,
                             AuthContext_non_admin, fault)

\* a deletion that also clears the lock entry of the key
delete_setting_clears_lock(w, setting_type, tenant_id, domain_object_id, fault) ==
    LET present == validate_gts_type_exists(w, setting_type, fault = 1)
        lock_key == LockKey(setting_type, tenant_id, domain_object_id)
        is_read_only == IsReadOnly(w.locks, lock_key)
        removed == soft_delete(w.settings, setting_type, tenant_id, domain_object_id,
                               w.now, fault = 2)
        written == [w EXCEPT !.settings = removed.rows,
                             !.locks = [k \in DOMAIN w.locks \ {lock_key} |-> w.locks[k]]]
        for_events == gts_find_by_type(written.types, setting_type, fault = 3)
        published ==
            IF for_events.ok /\ for_events.val # None
               THEN Publish(w.failing, deleted(setting_type, tenant_id, domain_object_id, w.now),
                            Unwrap(for_events.val), tenant_id)
               ELSE <<>>
    IN  IF present # "Ok" THEN Outcome(w, RetErr(present, ""), <<>>)
        ELSE IF is_read_only
                THEN Outcome(w, RetErr("Conflict", "Setting is locked for compliance"), <<>>)
        ELSE IF ~removed.res.ok THEN Outcome(w, RetErr("Internal", ""), <<>>)
        ELSE Outcome(written, RetOk, published)

delete_setting(w, setting_type, tenant_id, domain_object_id, fault) ==
    LET present == validate_gts_type_exists(w, setting_type, fault = 1)
        lock_key == LockKey(setting_type, tenant_id, domain_object_id)
        is_read_only == IsReadOnly(w.locks, lock_key)
        removed == soft_delete(w.settings, setting_type, tenant_id, domain_object_id,
                               w.now, fault = 2)
        written == [w EXCEPT !.settings = removed.rows]
        for_events == gts_find_by_type(written.types, setting_type, fault = 3)
        published ==
            IF for_events.ok /\ for_events.val # None
               THEN Publish(w.failing, deleted(setting_type, tenant_id, domain_object_id, w.now),
                            Unwrap(for_events.val), tenant_id)
               ELSE <<>>
    IN  IF present # "Ok" THEN Outcome(w, RetErr(present, ""), <<>>)
        ELSE IF is_read_only
                THEN Outcome(w, RetErr("Conflict", "Setting is locked for compliance"), <<>>)
        ELSE IF ~removed.res.ok THEN Outcome(w, RetErr("Internal", ""), <<>>)
        ELSE Outcome(written, RetOk, published)

lock_setting(w, setting_type, tenant_id, domain_object_id, read_only, fault) ==
    LET present == validate_gts_type_exists(w, setting_type, fault = 1)
        found == find_by_key(w.settings, setting_type, tenant_id, domain_object_id,
                             fault = 2)
        lock_key == LockKey(setting_type, tenant_id, domain_object_id)
        inserted ==
            [k \in DOMAIN w.locks \cup {lock_key} |->
                IF k = lock_key THEN read_only ELSE w.locks[k]]
        written == [w EXCEPT !.locks = inserted]
        for_events == gts_find_by_type(written.types, setting_type, fault = 3)
        published ==
            IF for_events.ok /\ for_events.val # None
               THEN Publish(w.failing, locked(setting_type, tenant_id, domain_object_id, read_only,
                                   w.now),
                            Unwrap(for_events.val), tenant_id)
               ELSE <<>>
    IN  IF present # "Ok" THEN Outcome(w, RetErr(present, ""), <<>>)
        \* map_err(..)?. turns only the Err of find_by_key into NotFound
        ELSE IF ~found.ok THEN Outcome(w, RetErr("NotFound", "setting"), <<>>)
        ELSE Outcome(written, RetOk, published)

\* a lookup that answers true for every key with an entry
is_locked_any_entry(w, setting_type, tenant_id, domain_object_id) ==
    LET lock_key == LockKey(setting_type, tenant_id, domain_object_id)
    IN  Outcome(w, RetFlag(lock_key \in DOMAIN w.locks), <<>>)

is_locked(w, setting_type, tenant_id, domain_object_id) ==
    LET lock_key == LockKey(setting_type, tenant_id, domain_object_id)
    IN  Outcome(w, RetFlag(IF lock_key \in DOMAIN w.locks THEN w.locks[lock_key]
                                                          ELSE FALSE), <<>>)

\* an unlock that leaves the entry in the map
unlock_setting_keeps_entry(w, setting_type, tenant_id, domain_object_id) ==
    Outcome(w, RetOk, <<>>)

unlock_setting(w, setting_type, tenant_id, domain_object_id) ==
    LET lock_key == LockKey(setting_type, tenant_id, domain_object_id)
    IN  Outcome([w EXCEPT !.locks = [k \in DOMAIN w.locks \ {lock_key} |-> w.locks[k]]],
                RetOk, <<>>)

\* the rows of `victims` removed one hard_delete at a time
RECURSIVE HardDeleteEach(_, _)
HardDeleteEach(rows, victims) ==
    IF victims = {} THEN rows
    ELSE LET s == CHOOSE v \in victims : TRUE
         IN  HardDeleteEach(hard_delete(rows, s.type, s.tenant_id, s.domain_object_id,
                                        FALSE).rows,
                            victims \ {s})

\* a sweep that counts the expired rows and deletes none
enforce_retention_counts_only(w, fault, fail_lookup, fail_delete) ==
    LET Expired(s) ==
            /\ s.deleted_at # None
            /\ LET found == gts_find_by_type(w.types, s.type, s.type \in fail_lookup)
               IN  /\ found.ok
                   /\ found.val # None
                   /\ w.now > Unwrap(s.deleted_at) + Unwrap(found.val).retention_period
    IN  Outcome(w, RetCount(Cardinality({s \in w.settings : Expired(s)})), <<>>)

\* fail_lookup: the type ids whose lookup fails; fail_delete: the rows whose
\* hard_delete fails
enforce_retention(w, fault, fail_lookup, fail_delete) ==
    LET all_settings == list_all(w.settings, fault = 1)
        Expired(s) ==
            /\ s.deleted_at # None
            /\ LET found == gts_find_by_type(w.types, s.type, s.type \in fail_lookup)
               IN  /\ found.ok
                   /\ found.val # None
                   /\ w.now > Unwrap(s.deleted_at) + Unwrap(found.val).retention_period
        removed == {s \in all_settings.val : Expired(s) /\ s \notin fail_delete}
    IN  IF ~all_settings.ok THEN Outcome(w, RetErr("Internal", ""), <<>>)
        ELSE Outcome([w EXCEPT !.settings = HardDeleteEach(w.settings, removed)],
                     RetCount(Cardinality(removed)), <<>>)

-----------------------------------------------------------------------------
(* The callers: one call at a time; a call leaves its result in `last`     *)
(* until the caller has taken it.                                          *)

\* the type definitions a caller registers for identifier t
Definitions(t) ==
    {GtsType(t, "Self_", "None", 0, TRUE, ow, FALSE, sch) :
        ow \in BOOLEAN, sch \in {None, Some(SCHEMA_NAME)}}
    \cup {GtsType(t, "Subroot", "Self_", 1, FALSE, TRUE, TRUE, Some(SCHEMA_BROKEN))}

\* an argument the method does not have
Absent == <<>>

\* a call of a Service method; tenant is an Option
Call(op, t, tenant, obj) ==
    [op |-> op, type |-> t, tenant_id |-> tenant, domain_object_id |-> obj,
     data |-> None, is_root_admin |-> FALSE, read_only |-> FALSE, gts_type |-> None]

Returns(c, out) ==
    /\ last = None
    /\ types' = out.types
    /\ settings' = out.settings
    /\ locks' = out.locks
    /\ last' = Some([call |-> c, ret |-> out.ret, published |-> out.published])
    /\ UNCHANGED <<now, scope, inflight, tenant_hierarchy>>

Init ==
    /\ types = {}
    /\ settings = {}
    /\ locks = [k \in {} |-> FALSE]
    /\ now = 0
    /\ last = None
    /\ scope \in Scopes
    /\ inflight = <<>>
    /\ tenant_hierarchy = [t \in {} |-> None]

RegisterType ==
    \E t \in TypeIds : \E g \in Definitions(t) :
        Returns([Call("register_gts_type", t, None, Absent) EXCEPT !.gts_type = Some(g)],
                register_gts_type(World, g, 0))

UpdateType ==
    \E t \in TypeIds : \E g \in Definitions(t) :
        Returns([Call("update_gts_type", t, None, Absent) EXCEPT !.gts_type = Some(g)],
                update_gts_type(World, g, 0))

DeleteType ==
    \E t \in TypeIds :
        Returns(Call("delete_gts_type", t, None, Absent), delete_gts_type(World, t, 0))

GetType ==
    \E t \in TypeIds :
        Returns(Call("get_gts_type", t, None, Absent), get_gts_type(World, t, 0))

ListTypes ==
    Returns(Call("list_gts_types", Absent, None, Absent), list_gts_types(World, 0))

GetSetting ==
    \E t \in TypeIds, tenant \in Tenants, obj \in Objects :
        Returns(Call("get_setting", t, Some(tenant), obj),
                get_setting(World, t, tenant, obj, 0))

GetSettingsByType ==
    \E t \in TypeIds, tenant \in {None} \cup {Some(x) : x \in Tenants} :
        Returns(Call("get_settings_by_type", t, tenant, Absent),
                get_settings_by_type(World, t, tenant, 0))

\* the table may grow to MaxRows rows
HasRoom(t, tenant, obj) ==
    \/ \E r \in settings : SameKey(r, t, tenant, obj)
    \/ Cardinality(settings) < MaxRows

UpsertSetting ==
    \E t \in TypeIds, tenant \in Tenants, obj \in Objects, data \in Data :
        /\ HasRoom(t, tenant, obj)
        /\ Returns([Call("upsert_setting", t, Some(tenant), obj) EXCEPT
                        !.data = Some(data)],
                   upsert_setting(World, t, tenant, obj, data, 0))

UpsertSettingWithAuth ==
    \E t \in TypeIds, tenant \in Tenants, obj \in Objects, data \in Data,
       auth_context \in {AuthContext_non_admin, AuthContext_root_admin} :
        /\ HasRoom(t, tenant, obj)
        /\ Returns([Call("upsert_setting_with_auth", t, Some(tenant), obj) EXCEPT
                        !.data = Some(data),
                        !.is_root_admin = auth_context.is_root_admin],
                   upsert_setting_with_auth(World, t, tenant, obj, data,
                                            auth_context, 0))

DeleteSetting ==
    \E t \in TypeIds, tenant \in Tenants, obj \in Objects :
        Returns(Call("delete_setting", t, Some(tenant), obj),
                delete_setting(World, t, tenant, obj, 0))

LockSetting ==
    \E t \in TypeIds, tenant \in Tenants, obj \in Objects, read_only \in BOOLEAN :
        /\ \/ LockKey(t, tenant, obj) \in DOMAIN locks
           \/ Cardinality(DOMAIN locks) < MaxLocks
        /\ Returns([Call("lock_setting", t, Some(tenant), obj) EXCEPT
                        !.read_only = read_only],
                   lock_setting(World, t, tenant, obj, read_only, 0))

IsLocked ==
    \E t \in TypeIds, tenant \in Tenants, obj \in Objects :
        Returns(Call("is_locked", t, Some(tenant), obj),
                is_locked(World, t, tenant, obj))

Unlock ==
    \E t \in TypeIds, tenant \in Tenants, obj \in Objects :
        Returns(Call("unlock_setting", t, Some(tenant), obj),
                unlock_setting(World, t, tenant, obj))

EnforceRetention ==
    Returns(Call("enforce_retention", Absent, None, Absent),
            enforce_retention(World, 0, {}, {}))

\* the caller takes the result
Return ==
    /\ last # None
    /\ last' = None
    /\ UNCHANGED <<types, settings, locks, now, scope, inflight, tenant_hierarchy>>

\* a day passes
Tick ==
    /\ last = None
    /\ now < scope.days
    /\ now' = now + 1
    /\ UNCHANGED <<types, settings, locks, last, scope, inflight, tenant_hierarchy>>

Next ==
    \/ RegisterType
    \/ UpdateType
    \/ DeleteType
    \/ GetType
    \/ ListTypes
    \/ GetSetting
    \/ GetSettingsByType
    \/ UpsertSetting
    \/ UpsertSettingWithAuth
    \/ DeleteSetting
    \/ LockSetting
    \/ IsLocked
    \/ Unlock
    \/ EnforceRetention
    \/ Return
    \/ Tick

Spec == Init /\ [][Next]_vars

-----------------------------------------------------------------------------
(* Vocabulary of the properties.  These read the tables directly and do    *)
(* not go through the repository operators.                                *)

\* a call returns in this step
Completes == last = None /\ last' # None

\* the call that has returned and its result
Done == Unwrap(last)

IsUpsert(c) == c.op \in {"upsert_setting", "upsert_setting_with_auth"}

Keys == TypeIds \X Tenants \X Objects
KeyOf(c) == <<c.type, Unwrap(c.tenant_id), c.domain_object_id>>
OnKey(c, k) == c.type = k[1] /\ c.tenant_id = Some(k[2]) /\ c.domain_object_id = k[3]

Registered(typeRows, t) == \E e \in typeRows : e.type = t
Definition(typeRows, t) == CHOOSE e \in typeRows : e.type = t

\* the rows physically stored at a key, and those not soft-deleted
RowsAt(rows, k) == {r \in rows : r.type = k[1] /\ r.tenant_id = k[2]
                                 /\ r.domain_object_id = k[3]}
LiveAt(rows, k) == {r \in RowsAt(rows, k) : r.deleted_at = None}

\* the data passes the validation of the registered type t
Accepted(typeRows, t, data) ==
    LET schema == Definition(typeRows, t).schema
    IN  schema = None \/ (Unwrap(schema).compiles /\ Unwrap(schema).required \subseteq DOMAIN data)

\* what GetSetting on key k returns in state w
Read(w, k) == get_setting(w, k[1], k[2], k[3], 0).ret

-----------------------------------------------------------------------------
(* C1: round trip.  A successful UpsertSetting on a key makes GetSetting  *)
(* on that key return exactly one setting carrying the data written, and  *)
(* every step that is not a successful upsert or delete on the key leaves *)
(* what GetSetting returns for it as it was.                               *)
C1_RoundTrip ==
    [][ Completes =>
          LET c == Done'.call
              r == Done'.ret
          IN  /\ (IsUpsert(c) /\ r.err = "Ok") =>
                    /\ Read(World', KeyOf(c)).err = "Ok"
                    /\ {s.data : s \in Read(World', KeyOf(c)).settings} = c.data
              /\ \A k \in Keys :
                    (/\ Read(World, k).err = "Ok"
                     /\ ~(r.err = "Ok" /\ OnKey(c, k)
                          /\ (IsUpsert(c) \/ c.op = "delete_setting")))
                    => /\ Read(World', k).err = "Ok"
                       /\ {s.data : s \in Read(World', k).settings}
                            = {s.data : s \in Read(World, k).settings} ]_vars

\* an upsert has replaced the data of a key of a type with a schema
C1_Witness ==
    /\ last # None
    /\ IsUpsert(Done.call)
    /\ Done.ret.err = "Ok"
    /\ Definition(types, Done.call.type).schema # None
    /\ \E r \in LiveAt(settings, KeyOf(Done.call)) :
          r.data = Unwrap(Done.call.data) /\ r.data = DATA_NAME

\* the lock table holds read-only = true for key k
LockedReadOnly(lockTable, k) == k \in DOMAIN lockTable /\ lockTable[k]

C3_LockBlocksDelete ==
    [][ Completes =>
          LET c == Done'.call
              r == Done'.ret
          IN  /\ (/\ c.op = "delete_setting"
                  /\ Registered(types, c.type)
                  /\ LockedReadOnly(locks, KeyOf(c)))
                 => /\ r.err = "Conflict"
                    /\ settings' = settings
                    /\ Read(World', KeyOf(c)) = Read(World, KeyOf(c))
              /\ c.op = "unlock_setting"
                 => /\ ~is_locked(World', c.type, Unwrap(c.tenant_id),
                                  c.domain_object_id).ret.flag
                    /\ KeyOf(c) \notin DOMAIN locks'
              /\ (/\ c.op = "delete_setting"
                  /\ Registered(types, c.type)
                  /\ KeyOf(c) \notin DOMAIN locks)
                 => /\ r.err = "Ok"
                    /\ Read(World', KeyOf(c)).err = "NotFound" ]_vars

\* delete_setting has been refused on a locked key that holds a setting
C3_Witness ==
    /\ last # None
    /\ Done.call.op = "delete_setting"
    /\ Done.ret.err = "Conflict"
    /\ LockedReadOnly(locks, KeyOf(Done.call))
    /\ LiveAt(settings, KeyOf(Done.call)) # {}

\* C4: a privileged UpsertSetting on a registered type with data that
\* passes the validation of the type succeeds and stores the data, whatever
\* the lock table and the overwritable flag say
C4_AdminBypass ==
    [][ Completes =>
          LET c == Done'.call
              r == Done'.ret
          IN  (/\ IsUpsert(c)
               /\ c.is_root_admin
               /\ Registered(types, c.type)
               /\ Accepted(types, c.type, Unwrap(c.data)))
              => /\ r.err = "Ok"
                 /\ r.settings = LiveAt(settings', KeyOf(c))
                 /\ Cardinality(RowsAt(settings', KeyOf(c))) = 1
                 /\ \A s \in LiveAt(settings', KeyOf(c)) : s.data = Unwrap(c.data) ]_vars

\* a privileged upsert has succeeded on a locked key of a type that is not
\* overwritable while another tenant holds a value for the same object
C4_Witness ==
    /\ last # None
    /\ IsUpsert(Done.call)
    /\ Done.call.is_root_admin
    /\ Done.ret.err = "Ok"
    /\ LockedReadOnly(locks, KeyOf(Done.call))
    /\ ~Definition(types, Done.call.type).traits.options.is_value_overwritable
    /\ \E s \in settings :
          /\ s.type = Done.call.type
          /\ s.domain_object_id = Done.call.domain_object_id
          /\ s.tenant_id \notin Done.call.tenant_id
          /\ s.deleted_at = None

\* C5: for a registered type with a validation schema, UpsertSetting with
\* data that does not satisfy the schema fails with SchemaValidation, for
\* privileged and non-privileged callers, and writes nothing
C5_SchemaRejects ==
    [][ Completes =>
          LET c == Done'.call
              r == Done'.ret
          IN  (/\ IsUpsert(c)
               /\ Registered(types, c.type)
               /\ LET schema == Definition(types, c.type).schema
                  IN  /\ schema # None
                      /\ Unwrap(schema).compiles
                      /\ ~(Unwrap(schema).required \subseteq DOMAIN Unwrap(c.data)))
              => /\ r.err = "SchemaValidation"
                 /\ settings' = settings
                 /\ Done'.published = <<>> ]_vars

\* a privileged upsert has been rejected by the schema
C5_Witness ==
    /\ last # None
    /\ IsUpsert(Done.call)
    /\ Done.call.is_root_admin
    /\ Done.ret.err = "SchemaValidation"
    /\ Done.call.data = Some(DATA_AGE)

\* the operations that name a type identifier and require it registered
NamesType(c) ==
    c.op \in {"get_setting", "get_settings_by_type", "upsert_setting",
              "upsert_setting_with_auth", "delete_setting", "lock_setting",
              "get_gts_type", "update_gts_type", "delete_gts_type"}

\* C6: GetSetting, get_settings_by_type, UpsertSetting, DeleteSetting,
\* LockSetting, GetType, UpdateType and DeleteType on a type identifier that
\* is not in the registry fail with TypeNotRegistered, leave the registry,
\* the settings and the lock table as they were and publish nothing
C6_UnregisteredType ==
    [][ Completes =>
          LET c == Done'.call
              r == Done'.ret
          IN  (NamesType(c) /\ ~Registered(types, c.type))
              => /\ r.err = "TypeNotRegistered"
                 /\ UNCHANGED <<types, settings, locks>>
                 /\ Done'.published = <<>> ]_vars

\* lock_setting on an unregistered type has been refused while another type
\* is registered and holds a setting
C6_Witness ==
    /\ last # None
    /\ Done.call.op = "lock_setting"
    /\ Done.ret.err = "TypeNotRegistered"
    /\ types # {}
    /\ settings # {}
    /\ locks = << >>

\* another tenant holds a non-deleted setting of type t for object obj
OtherTenantHolds(rows, t, tenant, obj) ==
    \E s \in rows : /\ s.type = t
                    /\ s.domain_object_id = obj
                    /\ s.tenant_id # tenant
                    /\ s.deleted_at = None

NotOverwritable(r) == r.err = "Conflict" /\ r.reason = "Setting is not overwritable"

\* C7 as stated: a non-privileged UpsertSetting on a type with
\* overwritable = false fails with Conflict "not overwritable" exactly when
\* another tenant holds a non-deleted setting of the type for the same
\* object; with overwritable = true this error is never returned
C7_OverwriteIff ==
    [][ Completes =>
          LET c == Done'.call
              r == Done'.ret
          IN  (IsUpsert(c) /\ ~c.is_root_admin /\ Registered(types, c.type))
              => IF Definition(types, c.type).traits.options.is_value_overwritable
                    THEN ~NotOverwritable(r)
                    ELSE NotOverwritable(r)
                         <=> OtherTenantHolds(settings, c.type, Unwrap(c.tenant_id),
                                              c.domain_object_id) ]_vars

\* C7, amended: the equivalence holds for the calls that pass the schema
\* validation and the lock check, which come first and return their own
\* errors; the other calls never fail with "not overwritable"
C7_OverwriteAfterChecks ==
    [][ Completes =>
          LET c == Done'.call
              r == Done'.ret
          IN  (IsUpsert(c) /\ ~c.is_root_admin /\ Registered(types, c.type))
              => IF Definition(types, c.type).traits.options.is_value_overwritable
                    THEN ~NotOverwritable(r)
                    ELSE IF /\ Accepted(types, c.type, Unwrap(c.data))
                            /\ ~LockedReadOnly(locks, KeyOf(c))
                    THEN NotOverwritable(r)
                         <=> OtherTenantHolds(settings, c.type, Unwrap(c.tenant_id),
                                              c.domain_object_id)
                    ELSE /\ r.err \in {"SchemaValidation", "Validation", "Conflict"}
                         /\ ~NotOverwritable(r) ]_vars

\* a non-privileged upsert has been refused as not overwritable
C7_Witness ==
    /\ last # None
    /\ IsUpsert(Done.call)
    /\ ~Done.call.is_root_admin
    /\ NotOverwritable(Done.ret)
    /\ OtherTenantHolds(settings, Done.call.type, Unwrap(Done.call.tenant_id),
                        Done.call.domain_object_id)
    /\ LiveAt(settings, KeyOf(Done.call)) = {}

\* C8: LockSetting on a registered type with no non-deleted setting at the
\* key fails with NotFound and leaves the lock table unchanged
C8_LockNeedsSetting ==
    [][ Completes =>
          LET c == Done'.call
              r == Done'.ret
          IN  (/\ c.op = "lock_setting"
               /\ Registered(types, c.type)
               /\ LiveAt(settings, KeyOf(c)) = {})
              => (r.err = "NotFound" /\ locks' = locks) ]_vars

\* C9 as stated: GetSetting returns the non-deleted setting stored at
\* exactly the key, and fails with NotFound when there is none
C9_DirectKeyOrNotFound ==
    [][ Completes =>
          LET c == Done'.call
              r == Done'.ret
          IN  c.op = "get_setting"
              => IF LiveAt(settings, KeyOf(c)) # {}
                    THEN r.err = "Ok" /\ r.settings = LiveAt(settings, KeyOf(c))
                    ELSE r.err = "NotFound" /\ r.settings = {} ]_vars

\* C9, amended: for a registered type GetSetting returns the non-deleted
\* setting stored at exactly the key and fails with NotFound when there is
\* none; for a type that is not registered it fails with TypeNotRegistered;
\* it never returns a setting of another tenant, object or type
C9_DirectKeyOnly ==
    [][ Completes =>
          LET c == Done'.call
              r == Done'.ret
          IN  c.op = "get_setting"
              => /\ IF ~Registered(types, c.type)
                       THEN r.err = "TypeNotRegistered" /\ r.settings = {}
                    ELSE IF LiveAt(settings, KeyOf(c)) # {}
                       THEN r.err = "Ok" /\ r.settings = LiveAt(settings, KeyOf(c))
                    ELSE r.err = "NotFound" /\ r.settings = {}
                 /\ Cardinality(r.settings) <= 1
                 /\ \A s \in r.settings :
                       /\ s.type = c.type
                       /\ s.tenant_id \in c.tenant_id
                       /\ s.domain_object_id = c.domain_object_id
                       /\ s.deleted_at = None ]_vars

\* get_setting has answered NotFound for a tenant while another tenant holds
\* a setting of the same inheritable type for the same object
C9_Witness ==
    /\ last # None
    /\ Done.call.op = "get_setting"
    /\ Done.ret.err = "NotFound"
    /\ Definition(types, Done.call.type).traits.options.is_value_inheritable
    /\ OtherTenantHolds(settings, Done.call.type, Unwrap(Done.call.tenant_id),
                        Done.call.domain_object_id)

\* what get_settings_by_type returns in state w
ReadByType(w, t, tenant) == get_settings_by_type(w, t, tenant, 0).ret

\* C10: a successful DeleteSetting makes GetSetting on the key fail with
\* NotFound and get_settings_by_type omit the key, while the row that was
\* stored stays in the table with a deletion timestamp; a soft-deleted row
\* is returned by no read, and it stays in the table, soft-deleted, through
\* every step but an EnforceRetention sweep or an upsert that writes its
\* key again
C10_SoftDelete ==
    [][ Completes =>
          LET c == Done'.call
              r == Done'.ret
          IN  /\ (c.op = "delete_setting" /\ r.err = "Ok")
                 => /\ Read(World', KeyOf(c)).err = "NotFound"
                    /\ \A tenant \in {None, c.tenant_id} :
                          \A s \in ReadByType(World', c.type, tenant).settings :
                             ~SameKey(s, c.type, Unwrap(c.tenant_id), c.domain_object_id)
                    /\ \A old \in RowsAt(settings, KeyOf(c)) :
                          \E row \in RowsAt(settings', KeyOf(c)) :
                             /\ row.deleted_at # None
                             /\ row.data = old.data
              /\ \A old \in settings :
                    old.deleted_at # None
                    => \/ \E row \in settings' :
                             /\ SameKey(row, old.type, old.tenant_id, old.domain_object_id)
                             /\ row.deleted_at # None
                             /\ row.data = old.data
                       \/ c.op = "enforce_retention"
                       \/ /\ IsUpsert(c)
                          /\ r.err = "Ok"
                          /\ OnKey(c, <<old.type, old.tenant_id, old.domain_object_id>>)
              /\ \A row \in settings' :
                    row.deleted_at # None
                    => /\ Read(World', <<row.type, row.tenant_id,
                                         row.domain_object_id>>).err = "NotFound"
                       /\ \A tenant \in {None, Some(row.tenant_id)} :
                             row \notin ReadByType(World', row.type, tenant).settings ]_vars

\* delete_setting has succeeded on a key that held a setting: the row is
\* still stored, with a deletion timestamp
C10_Witness ==
    /\ last # None
    /\ Done.call.op = "delete_setting"
    /\ Done.ret.err = "Ok"
    /\ \E row \in RowsAt(settings, KeyOf(Done.call)) :
          row.deleted_at # None /\ row.data = DATA_NAME

-----------------------------------------------------------------------------
(* tests/service_tests.rs: MockTenancyHierarchy and the composed read      *)
(* resolve_inherited_setting.  A hierarchy maps a tenant to the Option of  *)
(* its parent.                                                             *)

\* root <- child <- grandchild, and root <- sibling
HIERARCHY ==
    [t \in {"root", "child", "grandchild", "sibling"} |->
        CASE t = "root" -> None
          [] t = "child" -> Some("root")
          [] t = "grandchild" -> Some("child")
          [] t = "sibling" -> Some("root")]

HierarchyScope ==
    [types |-> {GTS_A}, tenants |-> DOMAIN HIERARCHY, objects |-> {OBJ_GENERIC},
     data |-> {DATA_NAME}, days |-> 0]

\* self.tenants.read().get(&tenant_id)?.parent_id
get_parent(hierarchy, tenant_id) ==
    IF tenant_id \in DOMAIN hierarchy THEN hierarchy[tenant_id] ELSE None

\* a walk that lists the ancestors from the root down
RECURSIVE get_ancestors_root_first(_, _)
get_ancestors_root_first(hierarchy, tenant_id) ==
    LET parent_id == get_parent(hierarchy, tenant_id)
    IN  IF parent_id = None THEN <<>>
        ELSE get_ancestors_root_first(hierarchy, Unwrap(parent_id)) \o <<Unwrap(parent_id)>>

\* from the immediate parent to the root
RECURSIVE get_ancestors(_, _)
get_ancestors(hierarchy, tenant_id) ==
    LET parent_id == get_parent(hierarchy, tenant_id)
    IN  IF parent_id = None THEN <<>>
        ELSE <<Unwrap(parent_id)>> \o get_ancestors(hierarchy, Unwrap(parent_id))

\* a flag test that forgets the barrier
IsInherited_without_barrier(gts_type) == gts_type.is_value_inheritable

\* is_value_inheritable && !is_barrier_inheritance
IsInherited(gts_type) ==
    gts_type.is_value_inheritable /\ ~gts_type.is_barrier_inheritance

\* the for loop over the ancestors: the Option<Setting> it returns
RECURSIVE WalkAncestors(_, _, _, _)
WalkAncestors(w, ancestors, setting_type, domain_object_id) ==
    IF ancestors = <<>> THEN None
    ELSE LET found == get_setting(w, setting_type, Head(ancestors), domain_object_id, 0).ret
             looked_up == get_gts_type(w, setting_type, 0).ret
         IN  IF /\ found.err = "Ok"
                /\ looked_up.err = "Ok"
                /\ IsInherited(Unwrap(looked_up.gts))
                THEN found.settings
                ELSE WalkAncestors(w, Tail(ancestors), setting_type, domain_object_id)

\* the returned Option<Setting> is the field `settings` of the result
resolve_inherited_setting(w, hierarchy, setting_type, tenant_id, domain_object_id) ==
    LET direct == get_setting(w, setting_type, tenant_id, domain_object_id, 0).ret
    IN  IF direct.err = "Ok" THEN Outcome(w, RetSettings(direct.settings), <<>>)
        ELSE Outcome(w, RetSettings(WalkAncestors(w, get_ancestors(hierarchy, tenant_id),
                                                  setting_type, domain_object_id)),
                     <<>>)

\* the definitions registered in the inheritance tests: every pair of flags
InheritanceDefinitions(t) ==
    {GtsType(t, "Self_", "None", 0, inh, TRUE, bar, None) : inh \in BOOLEAN, bar \in BOOLEAN}

InitInheritance ==
    /\ types = {}
    /\ settings = {}
    /\ locks = [k \in {} |-> FALSE]
    /\ now = 0
    /\ last = None
    /\ scope = HierarchyScope
    /\ inflight = <<>>
    /\ tenant_hierarchy = [t \in {} |-> None]

RegisterInheritanceType ==
    \E t \in TypeIds : \E g \in InheritanceDefinitions(t) :
        Returns([Call("register_gts_type", t, None, Absent) EXCEPT !.gts_type = Some(g)],
                register_gts_type(World, g, 0))

UpdateInheritanceType ==
    \E t \in TypeIds : \E g \in InheritanceDefinitions(t) :
        Returns([Call("update_gts_type", t, None, Absent) EXCEPT !.gts_type = Some(g)],
                update_gts_type(World, g, 0))

ResolveInheritedSetting ==
    \E t \in TypeIds, tenant \in Tenants, obj \in Objects :
        Returns(Call("resolve_inherited_setting", t, Some(tenant), obj),
                resolve_inherited_setting(World, HIERARCHY, t, tenant, obj))

NextInheritance ==
    \/ RegisterInheritanceType
    \/ UpdateInheritanceType
    \/ UpsertSetting
    \/ DeleteSetting
    \/ ResolveInheritedSetting
    \/ Return

SpecInheritance == InitInheritance /\ [][NextInheritance]_vars

\* the path from each tenant through its parent up to the root, written out
PathOf ==
    [t \in DOMAIN HIERARCHY |->
        CASE t = "root" -> <<"root">>
          [] t = "child" -> <<"child", "root">>
          [] t = "grandchild" -> <<"grandchild", "child", "root">>
          [] t = "sibling" -> <<"sibling", "root">>]

\* the positions of the path of `tenant` whose tenant holds a non-deleted
\* setting for (t, obj)
Holders(rows, t, tenant, obj) ==
    {i \in 1..Len(PathOf[tenant]) : LiveAt(rows, <<t, PathOf[tenant][i], obj>>) # {}}

Nearest(rows, t, tenant, obj) ==
    LET i == CHOOSE i \in Holders(rows, t, tenant, obj) :
                 \A j \in Holders(rows, t, tenant, obj) : i <= j
    IN  LiveAt(rows, <<t, PathOf[tenant][i], obj>>)

IsResolve(c) == c.op = "resolve_inherited_setting"

TraitsOf(typeRows, t) == Definition(typeRows, t).traits.options

\* C11: for a registered type with inheritable = true and barrier = false,
\* ResolveInheritedSetting returns the setting of the first tenant on the
\* path requesting tenant, parent, .., root that holds a non-deleted setting
\* for (type, object), owned by that tenant, and not-found when no tenant on
\* the path holds one
C11_NearestAncestorWins ==
    [][ Completes =>
          LET c == Done'.call
              r == Done'.ret
              tenant == Unwrap(c.tenant_id)
          IN  (/\ IsResolve(c)
               /\ Registered(types, c.type)
               /\ TraitsOf(types, c.type).is_value_inheritable
               /\ ~TraitsOf(types, c.type).is_barrier_inheritance)
              => /\ IF Holders(settings, c.type, tenant, c.domain_object_id) = {}
                       THEN r.settings = {}
                       ELSE r.settings = Nearest(settings, c.type, tenant, c.domain_object_id)
                 /\ \A s \in r.settings :
                       \E i \in 1..Len(PathOf[tenant]) : s.tenant_id = PathOf[tenant][i]
                 /\ UNCHANGED <<types, settings, locks>> ]_vars

\* the grandchild has been answered with the value of the child while the
\* root holds a value too
C11_Witness ==
    /\ last # None
    /\ IsResolve(Done.call)
    /\ Done.call.tenant_id = Some("grandchild")
    /\ \E s \in Done.ret.settings : s.tenant_id = "child"
    /\ LiveAt(settings, <<Done.call.type, "root", Done.call.domain_object_id>>) # {}

\* C12: ResolveInheritedSetting returns the direct setting of the requesting
\* tenant whatever the flags; with barrier = true or inheritable = false it
\* returns nothing else, so not-found when the tenant has no direct value
\* even though an ancestor holds one; a setting of another tenant is
\* returned only for inheritable = true and barrier = false
C12_FlagsGateInheritance ==
    [][ Completes =>
          LET c == Done'.call
              r == Done'.ret
              direct == LiveAt(settings, KeyOf(c))
          IN  (IsResolve(c) /\ Registered(types, c.type))
              => /\ direct # {} => r.settings = direct
                 /\ (\/ TraitsOf(types, c.type).is_barrier_inheritance
                     \/ ~TraitsOf(types, c.type).is_value_inheritable)
                    => r.settings = direct
                 /\ (\E s \in r.settings : s.tenant_id \notin c.tenant_id)
                    => /\ TraitsOf(types, c.type).is_value_inheritable
                       /\ ~TraitsOf(types, c.type).is_barrier_inheritance ]_vars

\* the child has been answered not-found under an inheritable type with a
\* barrier while the root holds a value
C12_Witness ==
    /\ last # None
    /\ IsResolve(Done.call)
    /\ Done.call.tenant_id = Some("child")
    /\ Done.ret.settings = {}
    /\ Registered(types, Done.call.type)
    /\ TraitsOf(types, Done.call.type).is_barrier_inheritance
    /\ TraitsOf(types, Done.call.type).is_value_inheritable
    /\ LiveAt(settings, <<Done.call.type, "root", Done.call.domain_object_id>>) # {}

-----------------------------------------------------------------------------
(* Retention *)

\* the soft-deleted rows of a registered type whose retention period is over
ExpiredRows(rows, typeRows, clock) ==
    {s \in rows : /\ s.deleted_at # None
                  /\ Registered(typeRows, s.type)
                  /\ clock > Unwrap(s.deleted_at)
                             + TraitsOf(typeRows, s.type).retention_period}

\* C13: EnforceRetention hard-deletes exactly the soft-deleted rows whose
\* type is registered and for which now > deletedAt + retention period,
\* leaves every other row in place, and returns the number of rows it
\* hard-deleted
C13_SweepDeletesExpired ==
    [][ Completes =>
          LET c == Done'.call
              r == Done'.ret
          IN  c.op = "enforce_retention"
              => /\ r.err = "Ok"
                 /\ settings' = settings \ ExpiredRows(settings, types, now)
                 /\ r.count = Cardinality(ExpiredRows(settings, types, now)) ]_vars

\* C14: right after an EnforceRetention that succeeded, with no operation
\* in between, a second EnforceRetention returns 0 and leaves the settings
\* as they are
C14_SweepIdempotent ==
    (/\ last # None
     /\ Done.call.op = "enforce_retention"
     /\ Done.ret.err = "Ok")
    => LET second == enforce_retention(World, 0, {}, {})
       IN  /\ second.ret.err = "Ok"
           /\ second.ret.count = 0
           /\ second.settings = settings

\* a sweep has returned in a state that holds a soft-deleted row past its
\* retention period
C14_Witness ==
    /\ last # None
    /\ Done.call.op = "enforce_retention"
    /\ Done.ret.err = "Ok"
    /\ ExpiredRows(settings, types, now) # {}

-----------------------------------------------------------------------------
(* Concurrent callers.  An upsert_setting_with_auth runs as the sequence   *)
(* of its awaits: the checks, the SELECT and the INSERT or UPDATE of        *)
(* SeaOrmSettingsRepository::upsert, and the publishing.  The Service       *)
(* holds no lock and opens no transaction across them, so the steps of two *)
(* callers, and the whole calls of the other methods, interleave.          *)

Procs == {"p1", "p2"}

ConcurrentScope ==
    [types |-> {GTS_A}, tenants |-> {"t1"}, objects |-> {OBJ_GENERIC},
     data |-> {DATA_NAME, DATA_AGE}, days |-> 0]

Idle == [pc |-> "idle"]

\* service.rs 103-152: the result of the checks, given the looked-up type
upsert_checks(w, gts_type, setting_type, tenant_id, domain_object_id, data, auth_context) ==
    LET schema_check ==
            IF gts_type.schema # None
               THEN validate_against_schema(data, Unwrap(gts_type.schema))
               ELSE "Ok"
        lock_key == LockKey(setting_type, tenant_id, domain_object_id)
        is_read_only == ~auth_context.is_root_admin /\ IsReadOnly(w.locks, lock_key)
        existing_settings == find_by_type(w.settings, setting_type, None, FALSE)
    IN  IF schema_check # "Ok" THEN RetErr(schema_check, "")
        ELSE IF is_read_only THEN RetErr("Conflict", "Setting is locked for compliance")
        ELSE IF /\ ChecksOverwritable(auth_context, gts_type)
                /\ HasParentSetting(existing_settings.val, tenant_id, domain_object_id)
                THEN RetErr("Conflict", "Setting is not overwritable")
        ELSE RetOk

\* the caller enters upsert_setting_with_auth: type lookup and checks, then
\* the Setting to write is built
UpsertBegin(p) ==
    \E t \in TypeIds, tenant \in Tenants, obj \in Objects, data \in Data,
       auth_context \in {AuthContext_non_admin, AuthContext_root_admin} :
        LET c == [Call("upsert_setting_with_auth", t, Some(tenant), obj) EXCEPT
                      !.data = Some(data), !.is_root_admin = auth_context.is_root_admin]
            looked_up == get_gts_type(World, t, 0).ret
            checked == IF looked_up.err # "Ok" THEN looked_up
                       ELSE upsert_checks(World, Unwrap(looked_up.gts), t, tenant, obj,
                                          data, auth_context)
        IN  /\ inflight[p] = Idle
            /\ inflight' = [inflight EXCEPT ![p] =
                  IF checked.err # "Ok"
                     THEN [pc |-> "done", call |-> c, ret |-> checked, published |-> <<>>]
                     ELSE [pc |-> "checked", call |-> c,
                           setting |-> Setting(t, tenant, obj, data, now, now, None)]]
            /\ UNCHANGED <<types, settings, locks, now, last, scope, tenant_hierarchy>>

\* the is_new probe, then the SELECT of upsert: the row it sees, if any
UpsertFind(p) ==
    /\ inflight[p].pc = "checked"
    /\ LET s == inflight[p].setting
           probe == find_by_key(settings, s.type, s.tenant_id, s.domain_object_id, FALSE)
           existing == One({r \in settings :
                              SameKey(r, s.type, s.tenant_id, s.domain_object_id)})
       IN  inflight' = [inflight EXCEPT ![p] =
               [pc |-> "found", call |-> inflight[p].call, setting |-> s,
                is_new |-> ~probe.ok, existing |-> existing]]
    /\ UNCHANGED <<types, settings, locks, now, last, scope, tenant_hierarchy>>

\* a write that looks at the lock table again and gives up on a read-only key
UpsertWrite_rechecks_lock(p) ==
    /\ inflight[p].pc = "found"
    /\ LET s == inflight[p].setting
           result == IF inflight[p].existing # None
                        THEN UpdateSetting(settings, [s EXCEPT !.updated_at = now])
                        ELSE InsertSetting(settings, types, s)
           is_read_only ==
               /\ ~inflight[p].call.is_root_admin
               /\ IsReadOnly(locks, LockKey(s.type, s.tenant_id, s.domain_object_id))
       IN  /\ settings' = IF is_read_only THEN settings ELSE result.rows
           /\ inflight' = [inflight EXCEPT ![p] =
                 IF is_read_only
                    THEN [pc |-> "done", call |-> inflight[p].call,
                          ret |-> RetErr("Conflict", "Setting is locked for compliance"),
                          published |-> <<>>]
                 ELSE IF ~result.res.ok
                    THEN [pc |-> "done", call |-> inflight[p].call,
                          ret |-> RetErr("Internal", ""), published |-> <<>>]
                    ELSE [pc |-> "written", call |-> inflight[p].call,
                          is_new |-> inflight[p].is_new, result |-> result.res.val]]
    /\ UNCHANGED <<types, locks, now, last, scope, tenant_hierarchy>>

\* the UPDATE or INSERT chosen by what the SELECT saw
UpsertWrite(p) ==
    /\ inflight[p].pc = "found"
    /\ LET s == inflight[p].setting
           result == IF inflight[p].existing # None
                        THEN UpdateSetting(settings, [s EXCEPT !.updated_at = now])
                        ELSE InsertSetting(settings, types, s)
       IN  /\ settings' = result.rows
           /\ inflight' = [inflight EXCEPT ![p] =
                 IF ~result.res.ok
                    THEN [pc |-> "done", call |-> inflight[p].call,
                          ret |-> RetErr("Internal", ""), published |-> <<>>]
                    ELSE [pc |-> "written", call |-> inflight[p].call,
                          is_new |-> inflight[p].is_new, result |-> result.res.val]]
    /\ UNCHANGED <<types, locks, now, last, scope, tenant_hierarchy>>

\* the second type lookup and the two publish calls
UpsertPublish(p) ==
    /\ inflight[p].pc = "written"
    /\ LET c == inflight[p].call
           for_events == gts_find_by_type(types, c.type, FALSE)
           published ==
               IF for_events.ok /\ for_events.val # None
                  THEN Publish(Failing, upserted(Unwrap(inflight[p].result), inflight[p].is_new, now),
                               Unwrap(for_events.val), Unwrap(c.tenant_id))
                  ELSE <<>>
       IN  inflight' = [inflight EXCEPT ![p] =
               [pc |-> "done", call |-> c, ret |-> RetSettings(inflight[p].result),
                published |-> published]]
    /\ UNCHANGED <<types, settings, locks, now, last, scope, tenant_hierarchy>>

\* the caller takes the result
UpsertReturn(p) ==
    /\ inflight[p].pc = "done"
    /\ inflight' = [inflight EXCEPT ![p] = Idle]
    /\ UNCHANGED <<types, settings, locks, now, last, scope, tenant_hierarchy>>

InitConcurrent ==
    /\ types = {}
    /\ settings = {}
    /\ locks = [k \in {} |-> FALSE]
    /\ now = 0
    /\ last = None
    /\ scope = ConcurrentScope
    /\ inflight = [p \in Procs |-> Idle]
    /\ tenant_hierarchy = [t \in {} |-> None]

NextConcurrent ==
    \/ RegisterType
    \/ DeleteType
    \/ DeleteSetting
    \/ LockSetting
    \/ Return
    \/ \E p \in Procs : UpsertBegin(p)
    \/ \E p \in Procs : UpsertFind(p)
    \/ \E p \in Procs : UpsertWrite(p)
    \/ \E p \in Procs : UpsertPublish(p)
    \/ \E p \in Procs : UpsertReturn(p)

SpecConcurrent == InitConcurrent /\ [][NextConcurrent]_vars

\* C15: in every state, also while upserts on the same key are in flight,
\* each key (type, tenant, object) holds at most one non-deleted setting,
\* and a write on a key that holds a row replaces the row
C15_OneLivePerKey ==
    [][ \A k \in Keys :
           /\ Cardinality(LiveAt(settings', k)) <= 1
           /\ RowsAt(settings, k) # {}
              => Cardinality(RowsAt(settings', k)) = Cardinality(RowsAt(settings, k)) ]_vars

\* two callers both saw no row at the key; one has inserted and the other
\* has been refused by the primary key
C15_Witness ==
    /\ inflight["p1"].pc = "done"
    /\ inflight["p1"].ret.err = "Ok"
    /\ inflight["p2"].pc = "done"
    /\ inflight["p2"].ret.err = "Internal"
    /\ inflight["p1"].call.data # inflight["p2"].call.data
    /\ KeyOf(inflight["p1"].call) = KeyOf(inflight["p2"].call)
    /\ Cardinality(LiveAt(settings, KeyOf(inflight["p1"].call))) = 1

-----------------------------------------------------------------------------
(* Type identifiers of any shape.  The registry starts with rows written   *)
(* through the repository, as the tests do with gts_repo.create, so an     *)
(* identifier the Service would refuse can be registered; a call runs with *)
(* a store whose call number `fault` fails (0: none).                      *)

\* "invalid.type~test.v1", "gts.a.p.sm.setting.v1.0.no.tilde", and neither
NO_PREFIX == <<"a", "~", "1">>
NO_TILDE == <<"g", "t", "s", ".", "a">>
NO_PREFIX_NO_TILDE == <<"g", "t", "s">>

FormatIds == {GTS_A, NO_PREFIX, NO_TILDE, NO_PREFIX_NO_TILDE}

FormatScope ==
    [types |-> FormatIds, tenants |-> {"t1"}, objects |-> {OBJ_GENERIC},
     data |-> {DATA_NAME}, days |-> 0]

\* two definitions of t that differ in the retention period
FormatDefinitions(t) ==
    {GtsType(t, "Self_", "None", r, TRUE, TRUE, FALSE, None) : r \in {0, 1}}

InitFormat ==
    /\ \E seeded \in SUBSET FormatIds :
          types = {GtsTypeToEntity(GtsType(t, "Self_", "None", 0, TRUE, TRUE, FALSE, None)) :
                      t \in seeded}
    /\ settings = {}
    /\ locks = [k \in {} |-> FALSE]
    /\ now = 0
    /\ last = None
    /\ scope = FormatScope
    /\ inflight = <<>>
    /\ tenant_hierarchy = [t \in {} |-> None]

\* the call, with the store call that fails
WithFault(c, fault) == [fault |-> fault] @@ c

RegisterTypeFaulty ==
    \E t \in TypeIds, fault \in 0..2 : \E g \in FormatDefinitions(t) :
        Returns(WithFault([Call("register_gts_type", t, None, Absent) EXCEPT
                               !.gts_type = Some(g)], fault),
                register_gts_type(World, g, fault))

UpdateTypeFaulty ==
    \E t \in TypeIds, fault \in 0..2 : \E g \in FormatDefinitions(t) :
        Returns(WithFault([Call("update_gts_type", t, None, Absent) EXCEPT
                               !.gts_type = Some(g)], fault),
                update_gts_type(World, g, fault))

NextFormat ==
    \/ RegisterTypeFaulty
    \/ UpdateTypeFaulty
    \/ GetType
    \/ DeleteType
    \/ Return

SpecFormat == InitFormat /\ [][NextFormat]_vars

\* the identifier lacks the prefix "gts." or the separator '~'
Malformed(id) ==
    \/ Len(id) < 4
    \/ <<id[1], id[2], id[3], id[4]>> # <<"g", "t", "s", ".">>
    \/ \A i \in 1..Len(id) : id[i] # "~"

\* C17: RegisterType and UpdateType with an identifier that lacks the prefix
\* "gts." or the separator '~' fail with InvalidGtsFormat carrying the
\* identifier and leave the registry unchanged, whether or not the
\* identifier is registered; the store is not called, so the answer is the
\* same when every store call would fail
C17_MalformedRejected ==
    [][ Completes =>
          LET c == Done'.call
              r == Done'.ret
          IN  (c.op \in {"register_gts_type", "update_gts_type"} /\ Malformed(c.type))
              => /\ r.err = "InvalidGtsFormat"
                 /\ r.subject = c.type
                 /\ r.gts = {}
                 /\ types' = types ]_vars

\* update_gts_type has refused a registered identifier without separator
\* while the store was failing
C17_Witness ==
    /\ last # None
    /\ Done.call.op = "update_gts_type"
    /\ Done.call.type = NO_TILDE
    /\ Done.call.fault = 1
    /\ Registered(types, NO_TILDE)
    /\ Done.ret.err = "InvalidGtsFormat"
    /\ Done.ret.subject = NO_TILDE

\* C18: RegisterType with a well-formed identifier that is registered fails
\* with Conflict and leaves the registry as it is: GetType returns the
\* definition it returned before
C18_DuplicateConflict ==
    [][ Completes =>
          LET c == Done'.call
              r == Done'.ret
          IN  (/\ c.op = "register_gts_type"
               /\ ~Malformed(c.type)
               /\ Registered(types, c.type))
              => /\ r.err = "Conflict"
                 /\ r.reason = "GTS type already exists"
                 /\ types' = types
                 /\ get_gts_type(World', c.type, 0).ret = get_gts_type(World, c.type, 0).ret
                 /\ get_gts_type(World', c.type, 0).ret.err = "Ok" ]_vars

\* a second registration with another definition has been refused and the
\* first definition is the one GetType returns
C18_Witness ==
    /\ last # None
    /\ Done.call.op = "register_gts_type"
    /\ Done.ret.err = "Conflict"
    /\ get_gts_type(World, Done.call.type, 0).ret.err = "Ok"
    /\ get_gts_type(World, Done.call.type, 0).ret.gts # Done.call.gts_type

\* C19: UpdateType on a registered type returns and stores the new
\* definition in place of the old one: GetType returns it afterwards, the
\* other definitions, the settings and the locks are untouched and every
\* GetSetting answers as before, also for settings the new schema rejects;
\* every upsert is judged by the definition stored when it is called: data
\* the schema rejects is refused, and a non-privileged upsert that passes
\* the schema and the lock check is refused as not overwritable exactly
\* when the stored flag is false and another tenant holds the object
C19_UpdateReplaces ==
    [][ Completes =>
          LET c == Done'.call
              r == Done'.ret
          IN  /\ (c.op = "update_gts_type" /\ Registered(types, c.type))
                 => /\ r.err = "Ok"
                    /\ r.gts = c.gts_type
                    /\ get_gts_type(World', c.type, 0).ret.gts = c.gts_type
                    /\ {e \in types' : e.type # c.type} = {e \in types : e.type # c.type}
                    /\ Cardinality({e \in types' : e.type = c.type}) = 1
                    /\ settings' = settings
                    /\ locks' = locks
                    /\ \A k \in Keys : Read(World', k) = Read(World, k)
              /\ (IsUpsert(c) /\ Registered(types, c.type))
                 => /\ ~Accepted(types, c.type, Unwrap(c.data))
                       => r.err \in {"SchemaValidation", "Validation"}
                    /\ (/\ Accepted(types, c.type, Unwrap(c.data))
                        /\ ~c.is_root_admin
                        /\ ~LockedReadOnly(locks, KeyOf(c)))
                       => (NotOverwritable(r)
                           <=> /\ ~TraitsOf(types, c.type).is_value_overwritable
                               /\ OtherTenantHolds(settings, c.type, Unwrap(c.tenant_id),
                                                   c.domain_object_id)) ]_vars

\* update_gts_type has installed a schema that a stored setting does not
\* satisfy, and the setting is still read with its data
C19_Witness ==
    /\ last # None
    /\ Done.call.op = "update_gts_type"
    /\ Done.ret.err = "Ok"
    /\ \E row \in settings :
          /\ row.type = Done.call.type
          /\ row.deleted_at = None
          /\ ~Accepted(types, row.type, row.data)
          /\ Read(World, <<row.type, row.tenant_id, row.domain_object_id>>).settings = {row}

-----------------------------------------------------------------------------
(* Event publishers that fail.  The EventPublisher is given to             *)
(* Service::new; a run has one, which returns Err on the channels of       *)
(* `failing`.                                                              *)

Channels == {"audit", "notification"}

EventScopes ==
    {[types |-> {GTS_A}, tenants |-> {"t1"}, objects |-> {OBJ_GENERIC},
      data |-> {DATA_NAME}, days |-> 0, failing |-> f] : f \in SUBSET Channels}

InitEvents ==
    /\ types = {}
    /\ settings = {}
    /\ locks = [k \in {} |-> FALSE]
    /\ now = 0
    /\ last = None
    /\ scope \in EventScopes
    /\ inflight = <<>>
    /\ tenant_hierarchy = [t \in {} |-> None]

NextEvents ==
    \/ RegisterType
    \/ UpsertSetting
    \/ UpsertSettingWithAuth
    \/ DeleteSetting
    \/ LockSetting
    \/ Unlock
    \/ Return

SpecEvents == InitEvents /\ [][NextEvents]_vars

Mutates(c) == IsUpsert(c) \/ c.op \in {"delete_setting", "lock_setting"}

\* the state with a publisher that never fails
Quiet(w) == [w EXCEPT !.failing = {}]

\* what the call c does in state w
Run(c, w) ==
    CASE c.op = "upsert_setting" ->
           upsert_setting(w, c.type, Unwrap(c.tenant_id), c.domain_object_id,
                          Unwrap(c.data), 0)
      [] c.op = "upsert_setting_with_auth" ->
           upsert_setting_with_auth(w, c.type, Unwrap(c.tenant_id), c.domain_object_id,
                                    Unwrap(c.data),
                                    [is_root_admin |-> c.is_root_admin], 0)
      [] c.op = "delete_setting" ->
           delete_setting(w, c.type, Unwrap(c.tenant_id), c.domain_object_id, 0)
      [] c.op = "lock_setting" ->
           lock_setting(w, c.type, Unwrap(c.tenant_id), c.domain_object_id,
                        c.read_only, 0)

\* C20: with a publisher that fails on the audit channel, the notification
\* channel or both, UpsertSetting, DeleteSetting and LockSetting return
\* what they return with a publisher that never fails and leave the same
\* settings and locks; a call that succeeds has made the audit call and then
\* the notification call for the same event, each one whatever the Result
\* of the other
C20_PublishBestEffort ==
    [][ Completes =>
          LET c == Done'.call
              r == Done'.ret
              p == Done'.published
              quiet == Run(c, Quiet(World))
          IN  Mutates(c)
              => /\ r = quiet.ret
                 /\ settings' = quiet.settings
                 /\ locks' = quiet.locks
                 /\ types' = types
                 /\ r.err = "Ok"
                    => /\ Len(p) = 2
                       /\ p[1].channel = "audit"
                       /\ p[2].channel = "notification"
                       /\ p[1].event = p[2].event
                       /\ \A i \in 1..2 : p[i].result = "Err" <=> p[i].channel \in Failing
                 /\ r.err # "Ok" => p = <<>> ]_vars

\* an upsert has succeeded and its row is stored although both publish
\* calls returned Err
C20_Witness ==
    /\ last # None
    /\ IsUpsert(Done.call)
    /\ Done.ret.err = "Ok"
    /\ Failing = Channels
    /\ Len(Done.published) = 2
    /\ Done.published[1].result = "Err"
    /\ Done.published[2].result = "Err"
    /\ \E row \in LiveAt(settings, KeyOf(Done.call)) : row.data = Unwrap(Done.call.data)

-----------------------------------------------------------------------------
(* Event targeting.  The Service hands the event and the target of the     *)
(* type to the EventPublisher; it does not look at the target itself.      *)

\* the indexes of the publish calls made on a channel
CallsOn(published, channel) ==
    {i \in 1..Len(published) : published[i].channel = channel}

\* the stored target of a channel of the registered type t
StoredTarget(typeRows, t, channel) ==
    IF channel = "audit" THEN Definition(typeRows, t).traits.events.audit
    ELSE Definition(typeRows, t).traits.events.notification

\* C21: a successful UpsertSetting, DeleteSetting or LockSetting makes no
\* publish call on a channel whose target in the type is None, and exactly
\* one call, for the tenant of the mutation, on a channel whose target is
\* Self or Subtree
C21_TargetGatesPublish ==
    [][ Completes =>
          LET c == Done'.call
              r == Done'.ret
              p == Done'.published
          IN  (Mutates(c) /\ r.err = "Ok" /\ Registered(types, c.type))
              => \A channel \in Channels :
                    IF StoredTarget(types, c.type, channel) = "NONE"
                       THEN CallsOn(p, channel) = {}
                       ELSE /\ Cardinality(CallsOn(p, channel)) = 1
                            /\ \A i \in CallsOn(p, channel) :
                                  p[i].tenant_id = Unwrap(c.tenant_id) ]_vars

-----------------------------------------------------------------------------
(* domain/hierarchy.rs: MockTenantHierarchyClient.  Tenant ids are         *)
(* numbers.  get_tenant_path holds the read guard of the map from its      *)
(* first line to its return, so add_tenant, remove_tenant and clear wait   *)
(* while a walk is in its loop; the walk itself is one step per evaluation *)
(* of the loop condition.                                                  *)

MAX_DEPTH == 100
MaxTenants == 3
MaxOver == 1

Walkers == {"p1"}

\* a run with every parent map over a few tenants, and a run with one long
\* chain 1 <- 2 <- .. <- n whose first tenant may be given the last as parent
PathScopes ==
    {[chain |-> FALSE, tenants |-> 1..MaxTenants],
     [chain |-> TRUE, tenants |-> 1..(MAX_DEPTH + MaxOver)]}

\* Result<_, HierarchyError>
HierarchyOk == [err |-> "Ok", reason |-> "", parent |-> None, path |-> <<>>, exists |-> FALSE]
HierarchyErr(kind, reason) == [HierarchyOk EXCEPT !.err = kind, !.reason = reason]
OkParent(parent_id) == [HierarchyOk EXCEPT !.parent = parent_id]
OkExists(b) == [HierarchyOk EXCEPT !.exists = b]
OkPath(path) == [HierarchyOk EXCEPT !.path = path]

add_tenant(h, tenant_id, parent_id) ==
    [t \in DOMAIN h \cup {tenant_id} |-> IF t = tenant_id THEN parent_id ELSE h[t]]

remove_tenant(h, tenant_id) == [t \in DOMAIN h \ {tenant_id} |-> h[t]]

clear(h) == [t \in {} |-> None]

get_parent_tenant(h, tenant_id) ==
    IF tenant_id \in DOMAIN h THEN OkParent(h[tenant_id])
    ELSE HierarchyErr("TenantNotFound", "")

validate_tenant_exists(h, tenant_id) == OkExists(tenant_id \in DOMAIN h)

\* get_tenant_path up to its loop
get_tenant_path_enter(h, tenant_id) ==
    IF tenant_id \notin DOMAIN h
       THEN [pc |-> "done", ret |-> HierarchyErr("TenantNotFound", "")]
       ELSE [pc |-> "loop", path |-> <<tenant_id>>, current |-> tenant_id,
             visited |-> {tenant_id}]

\* a loop that gives up when the path has reached the limit
get_tenant_path_iterate_at_limit(h, walk) ==
    IF walk.current \notin DOMAIN h \/ h[walk.current] = None
       THEN [pc |-> "done", ret |-> OkPath(walk.path)]
    ELSE LET parent_id == Unwrap(h[walk.current])
             path == Append(walk.path, parent_id)
         IN  IF parent_id \in walk.visited
                THEN [pc |-> "done",
                      ret |-> HierarchyErr("InvalidHierarchy", "Circular reference detected")]
             ELSE IF Len(path) >= MAX_DEPTH
                THEN [pc |-> "done",
                      ret |-> HierarchyErr("InvalidHierarchy",
                                           "Hierarchy depth exceeds maximum")]
             ELSE [pc |-> "loop", path |-> path, current |-> parent_id,
                   visited |-> walk.visited \cup {parent_id}]

\* one evaluation of `while let Some(Some(parent_id)) = hierarchy.get(&current)`
\* and of the loop body; the loop ends when current has no entry or no parent
get_tenant_path_iterate(h, walk) ==
    IF walk.current \notin DOMAIN h \/ h[walk.current] = None
       THEN [pc |-> "done", ret |-> OkPath(walk.path)]
    ELSE LET parent_id == Unwrap(h[walk.current])
             path == Append(walk.path, parent_id)
         IN  IF parent_id \in walk.visited
                THEN [pc |-> "done",
                      ret |-> HierarchyErr("InvalidHierarchy", "Circular reference detected")]
             ELSE IF Len(path) > MAX_DEPTH
                THEN [pc |-> "done",
                      ret |-> HierarchyErr("InvalidHierarchy",
                                           "Hierarchy depth exceeds maximum")]
             ELSE [pc |-> "loop", path |-> path, current |-> parent_id,
                   visited |-> walk.visited \cup {parent_id}]

\* the number of tenants of the chain of a chain run
ChainTop == Cardinality(DOMAIN tenant_hierarchy)

\* the (tenant, parent) pairs the callers of this run add
AddInputs ==
    IF scope.chain
       THEN (IF ChainTop < MAX_DEPTH + MaxOver
                /\ (ChainTop = 0 \/ tenant_hierarchy[1] = None)
                THEN {<<ChainTop + 1, IF ChainTop = 0 THEN None ELSE Some(ChainTop)>>}
                ELSE {})
            \cup (IF ChainTop >= 1 THEN {<<1, Some(ChainTop)>>, <<1, None>>} ELSE {})
       ELSE scope.tenants \X ({None} \cup {Some(u) : u \in scope.tenants})

\* the tenants the callers of this run remove
RemoveInputs ==
    IF scope.chain
       THEN (IF ChainTop >= 1 /\ tenant_hierarchy[1] = None THEN {ChainTop} ELSE {})
       ELSE scope.tenants

\* the tenants the callers of this run ask the path of
PathInputs == IF scope.chain THEN {1, ChainTop} \ {0} ELSE scope.tenants

\* no call is running (a get_tenant_path in its loop holds the read guard)
\* and every result has been taken: the callers make one call at a time
Unguarded == last = None /\ \A p \in DOMAIN inflight : inflight[p] = Idle

InitHierarchy ==
    /\ types = {}
    /\ settings = {}
    /\ locks = [k \in {} |-> FALSE]
    /\ now = 0
    /\ last = None
    /\ scope \in PathScopes
    /\ inflight = [p \in Walkers |-> Idle]
    /\ tenant_hierarchy = [t \in {} |-> None]

AddTenant ==
    \E input \in AddInputs :
        /\ Unguarded
        /\ tenant_hierarchy' = add_tenant(tenant_hierarchy, input[1], input[2])
        /\ UNCHANGED <<types, settings, locks, now, last, scope, inflight>>

RemoveTenant ==
    \E tenant_id \in RemoveInputs :
        /\ Unguarded
        /\ tenant_hierarchy' = remove_tenant(tenant_hierarchy, tenant_id)
        /\ UNCHANGED <<types, settings, locks, now, last, scope, inflight>>

Clear ==
    /\ Unguarded
    /\ tenant_hierarchy' = clear(tenant_hierarchy)
    /\ UNCHANGED <<types, settings, locks, now, last, scope, inflight>>

GetParentTenant ==
    \E tenant_id \in PathInputs :
        /\ Unguarded
        /\ Returns(Call("get_parent_tenant", Absent, Some(tenant_id), Absent),
                Outcome(World, get_parent_tenant(tenant_hierarchy, tenant_id), <<>>))

ValidateTenantExists ==
    \E tenant_id \in PathInputs :
        /\ Unguarded
        /\ Returns(Call("validate_tenant_exists", Absent, Some(tenant_id), Absent),
                Outcome(World, validate_tenant_exists(tenant_hierarchy, tenant_id), <<>>))

GetTenantPathEnter(p) ==
    \E tenant_id \in PathInputs :
        /\ Unguarded
        /\ inflight' = [inflight EXCEPT ![p] =
               [call |-> Call("get_tenant_path", Absent, Some(tenant_id), Absent)]
               @@ get_tenant_path_enter(tenant_hierarchy, tenant_id)]
        /\ UNCHANGED <<types, settings, locks, now, last, scope, tenant_hierarchy>>

GetTenantPathIterate(p) ==
    /\ inflight[p].pc = "loop"
    /\ inflight' = [inflight EXCEPT ![p] =
           [call |-> inflight[p].call]
           @@ get_tenant_path_iterate(tenant_hierarchy, inflight[p])]
    /\ UNCHANGED <<types, settings, locks, now, last, scope, tenant_hierarchy>>

\* the caller takes the path
GetTenantPathReturn(p) ==
    /\ inflight[p].pc = "done"
    /\ inflight' = [inflight EXCEPT ![p] = Idle]
    /\ UNCHANGED <<types, settings, locks, now, last, scope, tenant_hierarchy>>

NextHierarchy ==
    \/ AddTenant
    \/ RemoveTenant
    \/ Clear
    \/ GetParentTenant
    \/ ValidateTenantExists
    \/ Return
    \/ \E p \in Walkers : GetTenantPathEnter(p)
    \/ \E p \in Walkers : GetTenantPathIterate(p)
    \/ \E p \in Walkers : GetTenantPathReturn(p)

\* the thread that runs the loop of get_tenant_path keeps running
SpecHierarchy ==
    InitHierarchy /\ [][NextHierarchy]_vars
    /\ \A p \in Walkers : WF_vars(GetTenantPathIterate(p))

\* the tenants met by following parent links from the tenants of `seen`
RECURSIVE Reach(_, _)
Reach(h, seen) ==
    LET more == seen \cup {Unwrap(h[t]) : t \in {u \in seen \cap DOMAIN h : h[u] # None}}
    IN  IF more = seen THEN seen ELSE Reach(h, more)

\* following parent links from t ends at a tenant without parent
EndsAtRoot(h, t) == \E u \in Reach(h, {t}) \cap DOMAIN h : h[u] = None

\* following parent links from t never ends
Loops(h, t) == \A u \in Reach(h, {t}) : u \in DOMAIN h /\ h[u] # None

\* no tenant is its own ancestor
Acyclic(h) == \A t \in DOMAIN h : ~Loops(h, t)

\* get_tenant_path of caller p returns in this step
PathCompletes(p) == inflight[p].pc # "done" /\ inflight'[p].pc = "done"

\* C22: for a known tenant in an acyclic hierarchy (of at most 100 levels)
\* get_tenant_path returns the chain child-first: the requested tenant
\* first, each next element the parent of the one before, the root last;
\* for an unknown tenant get_tenant_path and get_parent_tenant fail with
\* TenantNotFound
C22_PathChildFirst ==
    [][ /\ \A p \in Walkers :
             PathCompletes(p) =>
               LET t == Unwrap(inflight'[p].call.tenant_id)
                   r == inflight'[p].ret
                   h == tenant_hierarchy
               IN  /\ t \notin DOMAIN h => r.err = "TenantNotFound"
                   /\ (t \in DOMAIN h /\ Acyclic(h)
                       /\ Cardinality(Reach(h, {t})) <= MAX_DEPTH)
                      => /\ r.err = "Ok"
                         /\ r.path[1] = t
                         /\ \A i \in 1..(Len(r.path) - 1) :
                               /\ r.path[i] \in DOMAIN h
                               /\ h[r.path[i]] = Some(r.path[i + 1])
                         /\ r.path[Len(r.path)] \in DOMAIN h
                         /\ h[r.path[Len(r.path)]] = None
        /\ (Completes /\ Done'.call.op = "get_parent_tenant"
            /\ Unwrap(Done'.call.tenant_id) \notin DOMAIN tenant_hierarchy)
           => Done'.ret.err = "TenantNotFound" ]_vars

\* C23: get_tenant_path terminates for every parent map.  When the parent
\* links from the tenant lead back to a visited tenant (a tenant that is
\* its own parent included) it fails with InvalidHierarchy; when the chain
\* from the tenant to the root has more than 100 tenants it fails with
\* InvalidHierarchy; a chain of exactly 100 tenants is returned
C23_PathTerminates ==
    /\ [][ \A p \in Walkers :
             PathCompletes(p) =>
               LET t == Unwrap(inflight'[p].call.tenant_id)
                   r == inflight'[p].ret
                   h == tenant_hierarchy
                   n == Cardinality(Reach(h, {t}))
               IN  t \in DOMAIN h
                   => /\ Loops(h, t) => r.err = "InvalidHierarchy"
                      /\ (EndsAtRoot(h, t) /\ n > MAX_DEPTH) => r.err = "InvalidHierarchy"
                      /\ (EndsAtRoot(h, t) /\ n = MAX_DEPTH)
                         => r.err = "Ok" /\ Len(r.path) = MAX_DEPTH ]_vars
    /\ \A p \in Walkers : (inflight[p].pc = "loop") ~> (inflight[p].pc = "done")

\* a walk on a parent map with a cycle has returned InvalidHierarchy
C23_Witness ==
    /\ scope \in PathScopes
    /\ inflight["p1"].pc = "done"
    /\ inflight["p1"].call.op = "get_tenant_path"
    /\ Loops(tenant_hierarchy, Unwrap(inflight["p1"].call.tenant_id))
    /\ inflight["p1"].ret.err = "InvalidHierarchy"
    /\ inflight["p1"].ret.reason = "Circular reference detected"

-----------------------------------------------------------------------------
(* The lock table is touched by lock_setting and unlock_setting only. *)

\* C24: lock entries are changed only by LockSetting and Unlock: every
\* other operation (DeleteSetting, EnforceRetention, UpsertSetting,
\* DeleteType among them) leaves the lock table as it was, so the lock
\* entry of a key is still there after the setting at that key is deleted
C24_LocksFrame ==
    [][ Completes =>
          LET c == Done'.call
          IN  /\ c.op \notin {"lock_setting", "unlock_setting"} => locks' = locks
              /\ (c.op = "lock_setting" /\ Done'.ret.err = "Ok")
                 => \A k \in DOMAIN locks \ {LockKey(c.type, Unwrap(c.tenant_id),
                                                     c.domain_object_id)} :
                       k \in DOMAIN locks' /\ locks'[k] = locks[k]
              /\ c.op = "unlock_setting"
                 => \A k \in DOMAIN locks \ {LockKey(c.type, Unwrap(c.tenant_id),
                                                     c.domain_object_id)} :
                       k \in DOMAIN locks' /\ locks'[k] = locks[k] ]_vars

\* a setting has been soft-deleted at a key that has a lock entry, and the
\* entry is still there
C24_Witness ==
    /\ last # None
    /\ Done.call.op = "delete_setting"
    /\ Done.ret.err = "Ok"
    /\ LockKey(Done.call.type, Unwrap(Done.call.tenant_id), Done.call.domain_object_id)
         \in DOMAIN locks
    /\ RowsAt(settings, KeyOf(Done.call)) # {}
    /\ LiveAt(settings, KeyOf(Done.call)) = {}

-----------------------------------------------------------------------------
(* Store calls that fail.  A caller's call comes with the number of the    *)
(* store call of the method that returns Err (0: none does); a number      *)
(* beyond the calls the method gets to make has no effect.                 *)

FaultScope ==
    [types |-> {GTS_A}, tenants |-> {"t1"}, objects |-> {OBJ_GENERIC},
     data |-> {DATA_NAME}, days |-> 0]

InitFaults ==
    /\ types = {}
    /\ settings = {}
    /\ locks = [k \in {} |-> FALSE]
    /\ now = 0
    /\ last = None
    /\ scope = FaultScope
    /\ inflight = <<>>
    /\ tenant_hierarchy = [t \in {} |-> None]

GetTypeFaulty ==
    \E t \in TypeIds, fault \in 0..1 :
        Returns(WithFault(Call("get_gts_type", t, None, Absent), fault),
                get_gts_type(World, t, fault))

DeleteTypeFaulty ==
    \E t \in TypeIds, fault \in 0..2 :
        Returns(WithFault(Call("delete_gts_type", t, None, Absent), fault),
                delete_gts_type(World, t, fault))

GetSettingFaulty ==
    \E t \in TypeIds, tenant \in Tenants, obj \in Objects, fault \in 0..2 :
        Returns(WithFault(Call("get_setting", t, Some(tenant), obj), fault),
                get_setting(World, t, tenant, obj, fault))

UpsertSettingFaulty ==
    \E t \in TypeIds, tenant \in Tenants, obj \in Objects, data \in Data, fault \in 0..6 :
        /\ HasRoom(t, tenant, obj)
        /\ Returns(WithFault([Call("upsert_setting", t, Some(tenant), obj) EXCEPT
                                  !.data = Some(data)], fault),
                   upsert_setting(World, t, tenant, obj, data, fault))

DeleteSettingFaulty ==
    \E t \in TypeIds, tenant \in Tenants, obj \in Objects, fault \in 0..3 :
        Returns(WithFault(Call("delete_setting", t, Some(tenant), obj), fault),
                delete_setting(World, t, tenant, obj, fault))

LockSettingFaulty ==
    \E t \in TypeIds, tenant \in Tenants, obj \in Objects, read_only \in BOOLEAN,
       fault \in 0..3 :
        /\ \/ LockKey(t, tenant, obj) \in DOMAIN locks
           \/ Cardinality(DOMAIN locks) < MaxLocks
        /\ Returns(WithFault([Call("lock_setting", t, Some(tenant), obj) EXCEPT
                                  !.read_only = read_only], fault),
                   lock_setting(World, t, tenant, obj, read_only, fault))

NextFaults ==
    \/ RegisterType
    \/ RegisterTypeFaulty
    \/ UpdateTypeFaulty
    \/ GetTypeFaulty
    \/ DeleteTypeFaulty
    \/ GetSettingFaulty
    \/ UpsertSettingFaulty
    \/ DeleteSettingFaulty
    \/ LockSettingFaulty
    \/ Unlock
    \/ Return

SpecFaults == InitFaults /\ [][NextFaults]_vars

\* what the call c does in state w when its store call number `fault` fails
Attempt(c, w, fault) ==
    CASE c.op = "get_gts_type" -> get_gts_type(w, c.type, fault)
      [] c.op = "register_gts_type" -> register_gts_type(w, Unwrap(c.gts_type), fault)
      [] c.op = "update_gts_type" -> update_gts_type(w, Unwrap(c.gts_type), fault)
      [] c.op = "delete_gts_type" -> delete_gts_type(w, c.type, fault)
      [] c.op = "get_setting" ->
           get_setting(w, c.type, Unwrap(c.tenant_id), c.domain_object_id, fault)
      [] c.op = "upsert_setting" ->
           upsert_setting(w, c.type, Unwrap(c.tenant_id), c.domain_object_id,
                          Unwrap(c.data), fault)
      [] c.op = "delete_setting" ->
           delete_setting(w, c.type, Unwrap(c.tenant_id), c.domain_object_id, fault)
      [] c.op = "lock_setting" ->
           lock_setting(w, c.type, Unwrap(c.tenant_id), c.domain_object_id,
                        c.read_only, fault)

\* C25: when a store call made by GetSetting, UpsertSetting, DeleteSetting,
\* LockSetting, RegisterType, UpdateType, DeleteType or GetType fails (the
\* call then differs, in its result, its effect or its events, from the
\* same call with a store that answers), the operation returns Internal:
\* never another error kind, never success
C25_StoreFailureInternal ==
    [][ Completes =>
          LET c == Done'.call
              clean == Attempt(c, World, 0)
          IN  ("fault" \in DOMAIN c /\ c.fault # 0
               /\ \/ Done'.ret # clean.ret
                  \/ Done'.published # clean.published
                  \/ settings' # clean.settings
                  \/ locks' # clean.locks
                  \/ types' # clean.types)
              => Done'.ret.err = "Internal" ]_vars

-----------------------------------------------------------------------------
(* domain/validation.rs: validate_domain_object_id.  A string is the       *)
(* sequence of its characters.                                             *)

MaxIdLen == 3

\* char::is_alphanumeric on the characters the callers use, all of them ASCII
LETTERS == {"a", "b", "c", "d", "e", "f", "g", "h", "i", "j", "k", "l", "m", "n", "o", "p", "q", "r", "s", "t", "u", "v", "w", "x", "y", "z", "A", "B", "C", "D", "E", "F", "G", "H", "I", "J", "K", "L", "M", "N", "O", "P", "Q", "R", "S", "T", "U", "V", "W", "X", "Y", "Z"}
DIGITS == {"0", "1", "2", "3", "4", "5", "6", "7", "8", "9"}
HEX_DIGITS == DIGITS \cup {"a", "b", "c", "d", "e", "f", "A", "B", "C", "D", "E", "F"}

is_alphanumeric(c) == c \in LETTERS \cup DIGITS

\* the 8-4-4-4-12 form of a UUID
IsHyphenated(str) ==
    /\ Len(str) = 36
    /\ \A i \in 1..36 : IF i \in {9, 14, 19, 24} THEN str[i] = "-"
                                                 ELSE str[i] \in HEX_DIGITS

\* Uuid::parse_str(str).is_ok(): 32 hex digits, the hyphenated form, the
\* hyphenated form in braces, or the hyphenated form after urn:uuid:
Uuid_parse_str(str) ==
    \/ Len(str) = 32 /\ \A i \in 1..32 : str[i] \in HEX_DIGITS
    \/ IsHyphenated(str)
    \/ /\ Len(str) = 38
       /\ str[1] = "{"
       /\ str[38] = "}"
       /\ IsHyphenated(SubSeq(str, 2, 37))
    \/ /\ Len(str) = 45
       /\ SubSeq(str, 1, 9) = <<"u", "r", "n", ":", "u", "u", "i", "d", ":">>
       /\ IsHyphenated(SubSeq(str, 10, 45))

\* a validation that looks for an alphanumeric character anywhere
validate_domain_object_id_any_alphanumeric(domain_object_id) ==
    IF domain_object_id = <<>>
       THEN RetErr("Validation", "domain_object_id cannot be empty")
    ELSE IF domain_object_id = OBJ_GENERIC THEN RetOk
    ELSE IF Uuid_parse_str(domain_object_id) THEN RetOk
    ELSE IF StartsWith(domain_object_id, <<"g", "t", "s", ".">>)
            /\ Contains(domain_object_id, "~") THEN RetOk
    ELSE IF \E i \in 1..Len(domain_object_id) :
               ~(\/ is_alphanumeric(domain_object_id[i])
                 \/ domain_object_id[i] \in {"_", ".", "-"})
            THEN RetErr("Validation", "contains invalid characters")
    ELSE IF ~\E i \in 1..Len(domain_object_id) : is_alphanumeric(domain_object_id[i])
            THEN RetErr("Validation", "must contain at least one alphanumeric character")
    ELSE RetOk

validate_domain_object_id(domain_object_id) ==
    IF domain_object_id = <<>>
       THEN RetErr("Validation", "domain_object_id cannot be empty")
    ELSE IF domain_object_id = OBJ_GENERIC THEN RetOk
    ELSE IF Uuid_parse_str(domain_object_id) THEN RetOk
    ELSE IF StartsWith(domain_object_id, <<"g", "t", "s", ".">>)
            /\ Contains(domain_object_id, "~") THEN RetOk
    ELSE IF ~is_alphanumeric(domain_object_id[1])
            THEN RetErr("Validation", "must start with alphanumeric character")
    ELSE IF \E i \in 1..Len(domain_object_id) :
               ~(\/ is_alphanumeric(domain_object_id[i])
                 \/ domain_object_id[i] \in {"_", ".", "-"})
            THEN RetErr("Validation", "contains invalid characters")
    ELSE IF ~\E i \in 1..Len(domain_object_id) : is_alphanumeric(domain_object_id[i])
            THEN RetErr("Validation", "must contain at least one alphanumeric character")
    ELSE RetOk

\* the characters of the short strings the callers pass
IdChars == {"a", "1", "_", ".", "-", "~", "@", " ", "A"}

UUID_HYPHENATED == <<"5", "5", "0", "e", "8", "4", "0", "0", "-", "e", "2", "9", "b", "-", "4", "1", "d", "4", "-", "a", "7", "1", "6", "-", "4", "4", "6", "6", "5", "5", "4", "4", "0", "0", "0", "0">>
UUID_SIMPLE == <<"5", "5", "0", "e", "8", "4", "0", "0", "e", "2", "9", "b", "4", "1", "d", "4", "a", "7", "1", "6", "4", "4", "6", "6", "5", "5", "4", "4", "0", "0", "0", "0">>
UUID_BRACED == <<"{", "5", "5", "0", "e", "8", "4", "0", "0", "-", "e", "2", "9", "b", "-", "4", "1", "d", "4", "-", "a", "7", "1", "6", "-", "4", "4", "6", "6", "5", "5", "4", "4", "0", "0", "0", "0", "}">>
UUID_URN == <<"u", "r", "n", ":", "u", "u", "i", "d", ":", "5", "5", "0", "e", "8", "4", "0", "0", "-", "e", "2", "9", "b", "-", "4", "1", "d", "4", "-", "a", "7", "1", "6", "-", "4", "4", "6", "6", "5", "5", "4", "4", "0", "0", "0", "0">>
UUID_UPPER == <<"5", "5", "0", "E", "8", "4", "0", "0", "-", "E", "2", "9", "B", "-", "4", "1", "D", "4", "-", "A", "7", "1", "6", "-", "4", "4", "6", "6", "5", "5", "4", "4", "0", "0", "0", "0">>

\* the strings of the tests and strings next to them
ID_SAMPLES ==
    {OBJ_GENERIC, OBJ_APP, GTS_A, NO_TILDE,
     <<"G", "e", "n", "e", "r", "i", "c">>,
     <<"g", "e", "n", "e", "r", "i", "c", " ">>,
     <<"a", "p", "p", ".", "c", "o", "d", "e", "-", "1">>,
     <<"m", "y", "_", "a", "p", "p", "_", "1", "2", "3">>,
     <<"B", "a", "c", "k", "u", "p", "A", "g", "e", "n", "t">>,
     <<"_", "b", "a", "d">>,
     <<"a", " ", "b">>,
     <<"a", "p", "p", "@", "c", "o", "d", "e">>,
     <<"a", "p", "p", "#", "c", "o", "d", "e">>,
     <<"_", "_", "_">>,
     <<"-", "i", "n", "v", "a", "l", "i", "d">>,
     <<".", "i", "n", "v", "a", "l", "i", "d">>,
     <<"g", "t", "s", ".", "@", " ", "~">>,
     <<"g", "t", "s", "~", ".">>,
     <<"~", "g", "t", "s", ".">>,
     <<"@", "g", "t", "s", ".", "a", "~", "1">>,
     <<"5", "5", "0", "e", "8", "4", "0", "0", "-", "e", "2", "9", "b", "-", "4", "1", "d", "4", "-", "a", "7", "1", "6", "-", "4", "4", "6", "6", "5", "5", "4", "4", "0", "0", "0">>,
     <<"5", "5", "0", "e", "8", "4", "0", "0", "-", "e", "2", "9", "b", "-", "4", "1", "d", "4", "-", "a", "7", "1", "6", "-", "4", "4", "6", "6", "5", "5", "4", "4", "0", "0", "0", "g">>,
     <<"5", "5", "0", "e", "8", "4", "0", "0", "_", "e", "2", "9", "b", "_", "4", "1", "d", "4", "_", "a", "7", "1", "6", "_", "4", "4", "6", "6", "5", "5", "4", "4", "0", "0", "0", "0">>,
     <<"{", "5", "5", "0", "e", "8", "4", "0", "0", "-", "e", "2", "9", "b", "-", "4", "1", "d", "4", "-", "a", "7", "1", "6", "-", "4", "4", "6", "6", "5", "5", "4", "4", "0", "0", "0", "0">>,
     <<"{", "5", "5", "0", "e", "8", "4", "0", "0", "e", "2", "9", "b", "4", "1", "d", "4", "a", "7", "1", "6", "4", "4", "6", "6", "5", "5", "4", "4", "0", "0", "0", "0", "}">>,
     <<"u", "r", "n", ":", "u", "u", "i", "d", ":", "5", "5", "0", "e", "8", "4", "0", "0", "e", "2", "9", "b", "4", "1", "d", "4", "a", "7", "1", "6", "4", "4", "6", "6", "5", "5", "4", "4", "0", "0", "0", "0">>,
     <<"u", "u", "i", "d", ":", "5", "5", "0", "e", "8", "4", "0", "0", "-", "e", "2", "9", "b", "-", "4", "1", "d", "4", "-", "a", "7", "1", "6", "-", "4", "4", "6", "6", "5", "5", "4", "4", "0", "0", "0", "0">>}

UUIDS == {UUID_HYPHENATED, UUID_SIMPLE, UUID_BRACED, UUID_URN, UUID_UPPER}

ObjectIdInputs ==
    UNION {[1..n -> IdChars] : n \in 0..MaxIdLen} \cup ID_SAMPLES \cup UUIDS

ObjectIdScope ==
    [types |-> {}, tenants |-> {}, objects |-> ObjectIdInputs, data |-> {}, days |-> 0]

InitObjectId ==
    /\ types = {}
    /\ settings = {}
    /\ locks = [k \in {} |-> FALSE]
    /\ now = 0
    /\ last = None
    /\ scope = ObjectIdScope
    /\ inflight = <<>>
    /\ tenant_hierarchy = [t \in {} |-> None]

ValidateDomainObjectId ==
    \E domain_object_id \in Objects :
        Returns(Call("validate_domain_object_id", Absent, None, domain_object_id),
                Outcome(World, validate_domain_object_id(domain_object_id), <<>>))

NextObjectId ==
    \/ ValidateDomainObjectId
    \/ Return

SpecObjectId == InitObjectId /\ [][NextObjectId]_vars

\* the shape of an app code: an alphanumeric first, then alphanumerics,
\* '_', '.' and '-'
AppCode(str) ==
    /\ str # <<>>
    /\ str[1] \in LETTERS \cup DIGITS
    /\ \A i \in 1..Len(str) : str[i] \in LETTERS \cup DIGITS \cup {"_", ".", "-"}

\* a type identifier's shape: "gts." first and a '~' somewhere
GtsShape(str) ==
    /\ Len(str) >= 4
    /\ str[1] = "g" /\ str[2] = "t" /\ str[3] = "s" /\ str[4] = "."
    /\ \E i \in 1..Len(str) : str[i] = "~"

\* C26: validate_domain_object_id accepts a string exactly when it is not
\* empty and is "generic", or a valid UUID, or starts with "gts." and
\* contains '~', or is an app code; every other string ("", "_bad", "a b",
\* "app@code", "___" among them) is rejected with Validation
C26_ObjectIdShape ==
    (last # None /\ Done.call.op = "validate_domain_object_id")
    => LET id == Done.call.domain_object_id
           accepted == /\ id # <<>>
                       /\ \/ id = <<"g", "e", "n", "e", "r", "i", "c">>
                          \/ id \in UUIDS
                          \/ GtsShape(id)
                          \/ AppCode(id)
       IN  /\ Done.ret.err = (IF accepted THEN "Ok" ELSE "Validation")
           /\ id \in {<<>>, <<"_", "b", "a", "d">>, <<"a", " ", "b">>, <<"a", "p", "p", "@", "c", "o", "d", "e">>, <<"_", "_", "_">>}
              => Done.ret.err = "Validation"

\* "_bad" has been rejected with Validation
C26_Witness ==
    /\ last # None
    /\ Done.call.op = "validate_domain_object_id"
    /\ Done.call.domain_object_id = <<"_", "b", "a", "d">>
    /\ Done.ret.err = "Validation"

-----------------------------------------------------------------------------
(* The lock check and the store write of an upsert are separate steps. *)

\* caller p's write step is taken
WriteStep(p) == inflight[p].pc = "found" /\ inflight'[p].pc # "found"

\* C27: the lock check and the store write of UpsertSetting are not atomic.
\* A non-privileged upsert that has passed its lock check is written by the
\* store whatever the lock table says at the time of the write, also when
\* a LockSetting(key, read_only = true) has completed in between: the row
\* of the now read-only key then carries the data of the upsert
C27_WriteAfterLock ==
    [][ \A p \in Procs :
          (WriteStep(p) /\ ~inflight[p].call.is_root_admin)
          => LET c == inflight[p].call
                 k == KeyOf(c)
                 accepts == IF inflight[p].existing # None
                               THEN RowsAt(settings, k) # {}
                               ELSE RowsAt(settings, k) = {} /\ Registered(types, c.type)
             IN  /\ accepts <=> inflight'[p].pc = "written"
                 /\ accepts => \E row \in LiveAt(settings', k) : row.data = Unwrap(c.data)
                 /\ ~accepts => inflight'[p].ret.err = "Internal" /\ settings' = settings
                 /\ locks' = locks ]_vars

\* a run in which days pass while one caller is inside its upsert
RaceScope ==
    [types |-> {GTS_A}, tenants |-> {"t1"}, objects |-> {OBJ_GENERIC},
     data |-> {DATA_NAME}, days |-> MaxTime]

InitRace ==
    /\ types = {}
    /\ settings = {}
    /\ locks = [k \in {} |-> FALSE]
    /\ now = 0
    /\ last = None
    /\ scope = RaceScope
    /\ inflight = [p \in Procs |-> Idle]
    /\ tenant_hierarchy = [t \in {} |-> None]

\* a day passes, whatever the callers are doing
TimePasses ==
    /\ now < scope.days
    /\ now' = now + 1
    /\ UNCHANGED <<types, settings, locks, last, scope, inflight, tenant_hierarchy>>

NextRace ==
    \/ RegisterType
    \/ LockSetting
    \/ Return
    \/ TimePasses
    \/ UpsertBegin("p1")
    \/ UpsertFind("p1")
    \/ UpsertWrite("p1")
    \/ UpsertPublish("p1")
    \/ UpsertReturn("p1")

SpecRace == InitRace /\ [][NextRace]_vars

\* the interleaving: LockSetting(key, true) has returned Ok (its event
\* carries the day), and the non-privileged upsert that passed its lock
\* check before it has, on a later day, written the row of the read-only key
C27_Witness ==
    /\ last # None
    /\ Done.call.op = "lock_setting"
    /\ Done.call.read_only
    /\ Done.ret.err = "Ok"
    /\ Len(Done.published) = 2
    /\ \E p \in Procs :
          /\ inflight[p].pc = "written"
          /\ ~inflight[p].call.is_root_admin
          /\ KeyOf(inflight[p].call) = KeyOf(Done.call)
          /\ LockedReadOnly(locks, KeyOf(Done.call))
          /\ Unwrap(inflight[p].result).updated_at > Done.published[1].event.timestamp
          /\ inflight[p].result = LiveAt(settings, KeyOf(Done.call))

-----------------------------------------------------------------------------
(* The sweep and the callers.  enforce_retention awaits the store between  *)
(* its scan and each hard delete, so calls of other callers run in         *)
(* between.  The settings repository of this run is MockSettingsRepo of    *)
(* tests/service_tests.rs, the repository whose list_all returns the       *)
(* soft-deleted rows too; with the SeaORM list_all the loop skips every    *)
(* row it is given.                                                        *)

\* HashMap::insert under the key of the setting
mock_upsert(rows, s) ==
    [res |-> DbOk({s}),
     rows |-> {r \in rows : ~SameKey(r, s.type, s.tenant_id, s.domain_object_id)}
                \cup {s}]

mock_find_by_key(rows, t, tenant, obj) ==
    DbOk({r \in rows : SameKey(r, t, tenant, obj) /\ r.deleted_at = None})

\* tenant is an Option; soft-deleted rows are not filtered out
mock_find_by_type(rows, t, tenant) ==
    DbOk({r \in rows : r.type = t /\ (tenant = None \/ r.tenant_id \in tenant)})

mock_soft_delete(rows, t, tenant, obj, clock) ==
    [res |-> DbOk({}),
     rows |-> {IF SameKey(r, t, tenant, obj)
                  THEN [r EXCEPT !.deleted_at = Some(clock)]
                  ELSE r : r \in rows}]

\* HashMap::remove of the key, whatever the row holds
mock_hard_delete(rows, t, tenant, obj) ==
    [res |-> DbOk({}), rows |-> {r \in rows : ~SameKey(r, t, tenant, obj)}]

mock_list_all(rows) == DbOk(rows)

\* Service::upsert_setting on the in-memory repository
upsert_setting_in_memory(w, setting_type, tenant_id, domain_object_id, data) ==
    LET looked_up == get_gts_type(w, setting_type, 0)
        gts_type == Unwrap(looked_up.ret.gts)
        schema_check ==
            IF gts_type.schema # None
               THEN validate_against_schema(data, Unwrap(gts_type.schema))
               ELSE "Ok"
        lock_key == LockKey(setting_type, tenant_id, domain_object_id)
        is_read_only == IsReadOnly(w.locks, lock_key)
        checks_overwritable == ChecksOverwritable(AuthContext_non_admin, gts_type)
        existing_settings == mock_find_by_type(w.settings, setting_type, None)
        has_parent_setting ==
            HasParentSetting(existing_settings.val, tenant_id, domain_object_id)
        setting == Setting(setting_type, tenant_id, domain_object_id, data,
                           w.now, w.now, None)
        is_new == ~mock_find_by_key(w.settings, setting_type, tenant_id,
                                    domain_object_id).ok
        result == mock_upsert(w.settings, setting)
        written == [w EXCEPT !.settings = result.rows]
        for_events == gts_find_by_type(written.types, setting_type, FALSE)
        published ==
            IF for_events.ok /\ for_events.val # None
               THEN Publish(w.failing, upserted(Unwrap(result.res.val), is_new, w.now),
                            Unwrap(for_events.val), tenant_id)
               ELSE <<>>
    IN  IF looked_up.ret.err # "Ok" THEN looked_up
        ELSE IF schema_check # "Ok" THEN Outcome(w, RetErr(schema_check, ""), <<>>)
        ELSE IF is_read_only
                THEN Outcome(w, RetErr("Conflict", "Setting is locked for compliance"), <<>>)
        ELSE IF checks_overwritable /\ has_parent_setting
                THEN Outcome(w, RetErr("Conflict", "Setting is not overwritable"), <<>>)
        ELSE Outcome(written, RetSettings(result.res.val), published)

\* Service::delete_setting on the in-memory repository
delete_setting_in_memory(w, setting_type, tenant_id, domain_object_id) ==
    LET present == validate_gts_type_exists(w, setting_type, FALSE)
        lock_key == LockKey(setting_type, tenant_id, domain_object_id)
        is_read_only == IsReadOnly(w.locks, lock_key)
        removed == mock_soft_delete(w.settings, setting_type, tenant_id,
                                    domain_object_id, w.now)
        written == [w EXCEPT !.settings = removed.rows]
        for_events == gts_find_by_type(written.types, setting_type, FALSE)
        published ==
            IF for_events.ok /\ for_events.val # None
               THEN Publish(w.failing, deleted(setting_type, tenant_id, domain_object_id, w.now),
                            Unwrap(for_events.val), tenant_id)
               ELSE <<>>
    IN  IF present # "Ok" THEN Outcome(w, RetErr(present, ""), <<>>)
        ELSE IF is_read_only
                THEN Outcome(w, RetErr("Conflict", "Setting is locked for compliance"), <<>>)
        ELSE Outcome(written, RetOk, published)

\* one turn of the loop of enforce_retention for the listed `setting`: the
\* rows and the count it leaves
enforce_retention_visit(typeRows, rows, sweep, setting) ==
    LET found == gts_find_by_type(typeRows, setting.type, FALSE)
        expired ==
            /\ setting.deleted_at # None
            /\ found.ok
            /\ found.val # None
            /\ sweep.now > Unwrap(setting.deleted_at) + Unwrap(found.val).retention_period
        removed == mock_hard_delete(rows, setting.type, setting.tenant_id,
                                    setting.domain_object_id)
    IN  IF expired /\ removed.res.ok
           THEN [rows |-> removed.rows, deleted_count |-> sweep.deleted_count + 1]
           ELSE [rows |-> rows, deleted_count |-> sweep.deleted_count]

SWEEPER == "sweeper"

SweepScope ==
    [types |-> {GTS_A}, tenants |-> {"t1"}, objects |-> {OBJ_GENERIC},
     data |-> {DATA_NAME}, days |-> MaxTime]

InitSweep ==
    /\ types = {}
    /\ settings = {}
    /\ locks = [k \in {} |-> FALSE]
    /\ now = 0
    /\ last = None
    /\ scope = SweepScope
    /\ inflight = [p \in {SWEEPER} |-> Idle]
    /\ tenant_hierarchy = [t \in {} |-> None]

UpsertSettingInMemory ==
    \E t \in TypeIds, tenant \in Tenants, obj \in Objects, data \in Data :
        /\ HasRoom(t, tenant, obj)
        /\ Returns([Call("upsert_setting", t, Some(tenant), obj) EXCEPT
                        !.data = Some(data)],
                   upsert_setting_in_memory(World, t, tenant, obj, data))

DeleteSettingInMemory ==
    \E t \in TypeIds, tenant \in Tenants, obj \in Objects :
        Returns(Call("delete_setting", t, Some(tenant), obj),
                delete_setting_in_memory(World, t, tenant, obj))

\* list_all, then `let now = chrono::Utc::now()`
SweepScan ==
    /\ inflight[SWEEPER] = Idle
    /\ inflight' = [inflight EXCEPT ![SWEEPER] =
           [pc |-> "loop", all_settings |-> mock_list_all(settings).val,
            now |-> now, deleted_count |-> 0]]
    /\ UNCHANGED <<types, settings, locks, now, last, scope, tenant_hierarchy>>

\* one turn of `for setting in all_settings`
SweepVisit ==
    /\ inflight[SWEEPER].pc = "loop"
    /\ \E setting \in inflight[SWEEPER].all_settings :
          LET visited == enforce_retention_visit(types, settings, inflight[SWEEPER], setting)
          IN  /\ settings' = visited.rows
              /\ inflight' = [inflight EXCEPT ![SWEEPER] =
                     [pc |-> "loop",
                      all_settings |-> inflight[SWEEPER].all_settings \ {setting},
                      now |-> inflight[SWEEPER].now,
                      deleted_count |-> visited.deleted_count]]
    /\ UNCHANGED <<types, locks, now, last, scope, tenant_hierarchy>>

\* Ok(deleted_count)
SweepReturn ==
    /\ inflight[SWEEPER].pc = "loop"
    /\ inflight[SWEEPER].all_settings = {}
    /\ last = None
    /\ last' = Some([call |-> Call("enforce_retention", Absent, None, Absent),
                     ret |-> RetCount(inflight[SWEEPER].deleted_count),
                     published |-> <<>>])
    /\ inflight' = [inflight EXCEPT ![SWEEPER] = Idle]
    /\ UNCHANGED <<types, settings, locks, now, scope, tenant_hierarchy>>

NextSweep ==
    \/ RegisterType
    \/ UpsertSettingInMemory
    \/ DeleteSettingInMemory
    \/ SweepScan
    \/ SweepVisit
    \/ SweepReturn
    \/ Return
    \/ Tick

SpecSweep == InitSweep /\ [][NextSweep]_vars

\* the sweep takes a turn of its loop in this step
SweepTurn ==
    /\ inflight[SWEEPER].pc = "loop"
    /\ inflight'[SWEEPER] # inflight[SWEEPER]

-----------------------------------------------------------------------------
(* The order of the steps of upsert_setting_with_auth. *)

\* the error of the schema validation of type t for the data, "Ok" if none
SchemaError(typeRows, t, data) ==
    LET schema == Definition(typeRows, t).schema
    IN  IF schema = None THEN "Ok"
        ELSE IF ~Unwrap(schema).compiles THEN "Validation"
        ELSE IF ~(Unwrap(schema).required \subseteq DOMAIN data) THEN "SchemaValidation"
        ELSE "Ok"

LockedForCompliance(r) == r.err = "Conflict" /\ r.reason = "Setting is locked for compliance"

\* the overwrite policy refuses the call c in the state of the tables given
OverwriteRefused(typeRows, rows, c) ==
    /\ ~c.is_root_admin
    /\ ~Definition(typeRows, c.type).traits.options.is_value_overwritable
    /\ OtherTenantHolds(rows, c.type, Unwrap(c.tenant_id), c.domain_object_id)

\* one run in which the schema, the lock and the overwrite policy can refuse
\* the same call: two tenants on one object, two documents
OrderScope ==
    [types |-> {GTS_A}, tenants |-> {"t1", "t2"}, objects |-> {OBJ_GENERIC},
     data |-> {DATA_NAME, DATA_AGE}, days |-> 0]

InitOrder ==
    /\ types = {}
    /\ settings = {}
    /\ locks = [k \in {} |-> FALSE]
    /\ now = 0
    /\ last = None
    /\ scope = OrderScope
    /\ inflight = <<>>
    /\ tenant_hierarchy = [t \in {} |-> None]

NextOrder ==
    \/ RegisterType
    \/ UpdateType
    \/ DeleteType
    \/ UpsertSetting
    \/ UpsertSettingWithAuth
    \/ LockSetting
    \/ Unlock
    \/ Return

SpecOrder == InitOrder /\ [][NextOrder]_vars

\* C29: UpsertSetting runs type lookup, schema validation, lock check,
\* overwrite-policy check, store write, event dispatch in this order: the
\* error returned is that of the earliest step that fails, whatever the
\* later steps would say, a call that fails writes nothing and publishes
\* nothing, and a call that publishes has written its row
C29_CheckOrder ==
    [][ Completes =>
          LET c == Done'.call
              r == Done'.ret
          IN  IsUpsert(c) =>
                /\ IF ~Registered(types, c.type)
                      THEN r.err = "TypeNotRegistered"
                   ELSE IF SchemaError(types, c.type, Unwrap(c.data)) # "Ok"
                      THEN r.err = SchemaError(types, c.type, Unwrap(c.data))
                   ELSE IF ~c.is_root_admin /\ LockedReadOnly(locks, KeyOf(c))
                      THEN LockedForCompliance(r)
                   ELSE IF OverwriteRefused(types, settings, c)
                      THEN NotOverwritable(r)
                   ELSE r.err = "Ok"
                /\ r.err # "Ok" => settings' = settings /\ Done'.published = <<>>
                /\ Done'.published # <<>> =>
                      \E row \in LiveAt(settings', KeyOf(c)) :
                          /\ row.data = Unwrap(c.data)
                          /\ row.updated_at = now ]_vars

\* an upsert that the schema, the lock and the overwrite policy all refuse
\* has returned the error of the schema validation
C29_Witness ==
    /\ last # None
    /\ IsUpsert(Done.call)
    /\ ~Done.call.is_root_admin
    /\ Done.ret.err = "SchemaValidation"
    /\ LockedReadOnly(locks, KeyOf(Done.call))
    /\ OverwriteRefused(types, settings, Done.call)
    /\ Done.published = <<>>

-----------------------------------------------------------------------------
\* C30: the Upserted event of UpsertSetting carries is_new = true exactly
\* when no non-deleted setting existed at the key before the write, and
\* is_new = false when the write updated an existing setting
C30_IsNewExact ==
    [][ Completes =>
          LET c == Done'.call
              r == Done'.ret
          IN  (IsUpsert(c) /\ r.err = "Ok") =>
                \A i \in DOMAIN Done'.published :
                    Done'.published[i].event.is_new
                        <=> (LiveAt(settings, KeyOf(c)) = {}) ]_vars

-----------------------------------------------------------------------------
\* C31: when UpsertSetting updates a key that already holds a setting, the
\* stored creation timestamp stays that of the original creation; only the
\* update timestamp and the data change
C31_CreatedAtKept ==
    [][ Completes =>
          LET c == Done'.call
              r == Done'.ret
          IN  (IsUpsert(c) /\ r.err = "Ok" /\ LiveAt(settings, KeyOf(c)) # {}) =>
                \A old \in LiveAt(settings, KeyOf(c)) :
                    \A new \in LiveAt(settings', KeyOf(c)) :
                        new.created_at = old.created_at ]_vars

-----------------------------------------------------------------------------
\* C32: in every reachable state, every key whose lock entry is
\* read-only = true has a non-deleted setting stored at that key
C32_LockedHasSetting ==
    \A k \in DOMAIN locks : locks[k] => LiveAt(settings, k) # {}

-----------------------------------------------------------------------------
(* Tenants racing for one object.  Two callers of upsert_setting, the      *)
(* entry point without privileges, write settings of a type that is        *)
(* registered as not overwritable and never updated.                       *)

TenantRaceScope ==
    [types |-> {GTS_A}, tenants |-> {"t1", "t2"}, objects |-> {OBJ_GENERIC},
     data |-> {DATA_NAME}, days |-> 0]

InitTenantRace ==
    /\ types = {}
    /\ settings = {}
    /\ locks = [k \in {} |-> FALSE]
    /\ now = 0
    /\ last = None
    /\ scope = TenantRaceScope
    /\ inflight = [p \in Procs |-> Idle]
    /\ tenant_hierarchy = [t \in {} |-> None]

RegisterNonOverwritableType ==
    \E t \in TypeIds :
        \E g \in {d \in Definitions(t) : ~d.is_value_overwritable} :
            Returns([Call("register_gts_type", t, None, Absent) EXCEPT !.gts_type = Some(g)],
                    register_gts_type(World, g, 0))

\* upsert_setting: upsert_setting_with_auth with AuthContext::non_admin(),
\* up to the end of its checks
UpsertSettingBegin(p) ==
    \E t \in TypeIds, tenant \in Tenants, obj \in Objects, data \in Data :
        LET c == [Call("upsert_setting", t, Some(tenant), obj) EXCEPT !.data = Some(data)]
            looked_up == get_gts_type(World, t, 0).ret
            checked == IF looked_up.err # "Ok" THEN looked_up
                       ELSE upsert_checks(World, Unwrap(looked_up.gts), t, tenant, obj,
                                          data, AuthContext_non_admin)
        IN  /\ inflight[p] = Idle
            /\ inflight' = [inflight EXCEPT ![p] =
                  IF checked.err # "Ok"
                     THEN [pc |-> "done", call |-> c, ret |-> checked, published |-> <<>>]
                     ELSE [pc |-> "checked", call |-> c,
                           setting |-> Setting(t, tenant, obj, data, now, now, None)]]
            /\ UNCHANGED <<types, settings, locks, now, last, scope, tenant_hierarchy>>

NextTenantRace ==
    \/ RegisterNonOverwritableType
    \/ DeleteSetting
    \/ Return
    \/ \E p \in Procs : UpsertSettingBegin(p)
    \/ \E p \in Procs : UpsertFind(p)
    \/ \E p \in Procs : UpsertWrite(p)
    \/ \E p \in Procs : UpsertPublish(p)
    \/ \E p \in Procs : UpsertReturn(p)

SpecTenantRace == InitTenantRace /\ [][NextTenantRace]_vars

\* the tenants holding a non-deleted setting of type t for object obj
HoldingTenants(rows, t, obj) ==
    {r.tenant_id : r \in {s \in rows : /\ s.type = t
                                       /\ s.domain_object_id = obj
                                       /\ s.deleted_at = None}}

\* C33: for a type whose overwritable flag stays false and upserts that are
\* all non-privileged, in every reachable state, also with upserts of
\* different tenants in flight, at most one tenant holds a non-deleted
\* setting for a given (type, object id)
C33_OneTenantHolds ==
    \A t \in TypeIds, obj \in Objects : Cardinality(HoldingTenants(settings, t, obj)) <= 1

-----------------------------------------------------------------------------
(* Failing upserts: the calls of SpecOrder, the non-privileged upsert with *)
(* each of its store calls failing in turn.                                *)

NextUpsertErrors ==
    \/ RegisterType
    \/ UpdateType
    \/ DeleteType
    \/ UpsertSettingFaulty
    \/ UpsertSettingWithAuth
    \/ LockSetting
    \/ Unlock
    \/ Return

SpecUpsertErrors == InitOrder /\ [][NextUpsertErrors]_vars

\* C34: an UpsertSetting that returns an error leaves the settings, the
\* type registry and the lock table exactly as they were and publishes no
\* event
C34_FailedUpsertFrame ==
    [][ Completes =>
          LET c == Done'.call
              r == Done'.ret
          IN  (IsUpsert(c) /\ r.err # "Ok") =>
                /\ settings' = settings
                /\ types' = types
                /\ locks' = locks
                /\ Done'.published = <<>> ]_vars

\* an upsert of a registered type has failed with Internal on a read of the
\* store (the settings of the type, or the row of the key) while the tables
\* hold a setting and a lock
C34_Witness ==
    /\ last # None
    /\ IsUpsert(Done.call)
    /\ "fault" \in DOMAIN Done.call
    /\ Done.call.fault \in {2, 4}
    /\ Done.ret.err = "Internal"
    /\ Registered(types, Done.call.type)
    /\ settings # {}
    /\ locks # << >>
    /\ Done.published = <<>>

-----------------------------------------------------------------------------
(* The lock table as a map with default false. *)

LockScope ==
    [types |-> {GTS_A}, tenants |-> {"t1"}, objects |-> {OBJ_GENERIC, OBJ_APP},
     data |-> {DATA_NAME}, days |-> 0]

InitLocks ==
    /\ types = {}
    /\ settings = {}
    /\ locks = [k \in {} |-> FALSE]
    /\ now = 0
    /\ last = None
    /\ scope = LockScope
    /\ inflight = <<>>
    /\ tenant_hierarchy = [t \in {} |-> None]

\* lock_setting on any key of the run: the map holds an entry for each
LockSettingOnAnyKey ==
    \E t \in TypeIds, tenant \in Tenants, obj \in Objects, read_only \in BOOLEAN :
        Returns([Call("lock_setting", t, Some(tenant), obj) EXCEPT
                     !.read_only = read_only],
                lock_setting(World, t, tenant, obj, read_only, 0))

NextLocks ==
    \/ RegisterType
    \/ DeleteType
    \/ UpsertSetting
    \/ DeleteSetting
    \/ LockSettingOnAnyKey
    \/ IsLocked
    \/ Unlock
    \/ Return

SpecLocks == InitLocks /\ [][NextLocks]_vars

\* what IsLocked answers for key k in state w
Locked(w, k) == is_locked(w, k[1], k[2], k[3]).ret.flag

\* the state w without the lock entry of key k
WithoutEntry(w, k) == [w EXCEPT !.locks = [j \in DOMAIN w.locks \ {k} |-> w.locks[j]]]

\* C35: IsLocked(key) is the readOnly argument of the most recent
\* successful LockSetting on the key not followed by Unlock(key), and
\* false otherwise: a successful LockSetting sets it to its argument, Unlock
\* sets it to false, and no other step, and no step on another key, changes
\* it; an entry with readOnly = false restricts nothing: upsert and delete
\* do what they do without the entry; Unlock and IsLocked succeed with or
\* without a registered type, and publish no event
C35_LockTableMap ==
    [][ Completes =>
          LET c == Done'.call
              r == Done'.ret
              sets == c.op = "lock_setting" /\ r.err = "Ok"
              clears == c.op = "unlock_setting"
          IN  /\ \A k \in Keys :
                    Locked(World', k) =
                        IF OnKey(c, k) /\ sets THEN c.read_only
                        ELSE IF OnKey(c, k) /\ clears THEN FALSE
                        ELSE Locked(World, k)
              /\ c.op = "is_locked" => r.flag = Locked(World, KeyOf(c))
              /\ c.op \in {"is_locked", "unlock_setting"} =>
                    /\ r.err = "Ok"
                    /\ Done'.published = <<>>
                    /\ types' = types
                    /\ settings' = settings
              /\ (/\ IsUpsert(c) \/ c.op = "delete_setting"
                  /\ KeyOf(c) \in DOMAIN locks
                  /\ ~locks[KeyOf(c)])
                 => /\ r = Run(c, WithoutEntry(World, KeyOf(c))).ret
                    /\ settings' = Run(c, WithoutEntry(World, KeyOf(c))).settings ]_vars

\* IsLocked has answered true for a key of a type that is not registered,
\* while another key holds an entry with read-only = false
C35_Witness ==
    /\ last # None
    /\ Done.call.op = "is_locked"
    /\ Done.ret.flag
    /\ ~Registered(types, Done.call.type)
    /\ \E k \in DOMAIN locks : k # KeyOf(Done.call) /\ ~locks[k]

-----------------------------------------------------------------------------
\* the rows of type t in the settings table, soft-deleted ones included
RowsOfType(rows, t) == {r \in rows : r.type = t}

-----------------------------------------------------------------------------
(* Overlapping sweeps.  Two callers run enforce_retention on the SeaORM    *)
(* repository, each as the sequence of its awaits, while settings are      *)
(* written and deleted.                                                    *)

Sweepers == {"s1", "s2"}

InitSweeps ==
    /\ types = {}
    /\ settings = {}
    /\ locks = [k \in {} |-> FALSE]
    /\ now = 0
    /\ last = None
    /\ scope = SweepScope
    /\ inflight = [p \in Sweepers |-> Idle]
    /\ tenant_hierarchy = [t \in {} |-> None]

\* one turn of the loop of enforce_retention for the listed `setting`, on
\* the SeaORM repository
enforce_retention_turn(typeRows, rows, sweep, setting) ==
    LET found == gts_find_by_type(typeRows, setting.type, FALSE)
        expired ==
            /\ setting.deleted_at # None
            /\ found.ok
            /\ found.val # None
            /\ sweep.now > Unwrap(setting.deleted_at) + Unwrap(found.val).retention_period
        removed == hard_delete(rows, setting.type, setting.tenant_id,
                               setting.domain_object_id, FALSE)
    IN  IF expired /\ removed.res.ok
           THEN [rows |-> removed.rows, deleted_count |-> sweep.deleted_count + 1]
           ELSE [rows |-> rows, deleted_count |-> sweep.deleted_count]

\* list_all(u64::MAX, 0), then `let now = chrono::Utc::now()`
EnforceRetentionScan(p) ==
    /\ inflight[p] = Idle
    /\ inflight' = [inflight EXCEPT ![p] =
           [pc |-> "loop", all_settings |-> list_all(settings, FALSE).val,
            now |-> now, deleted_count |-> 0]]
    /\ UNCHANGED <<types, settings, locks, now, last, scope, tenant_hierarchy>>

\* one turn of `for setting in all_settings`
EnforceRetentionVisit(p) ==
    /\ inflight[p].pc = "loop"
    /\ \E setting \in inflight[p].all_settings :
          LET visited == enforce_retention_turn(types, settings, inflight[p], setting)
          IN  /\ settings' = visited.rows
              /\ inflight' = [inflight EXCEPT ![p] =
                     [pc |-> "loop",
                      all_settings |-> inflight[p].all_settings \ {setting},
                      now |-> inflight[p].now,
                      deleted_count |-> visited.deleted_count]]
    /\ UNCHANGED <<types, locks, now, last, scope, tenant_hierarchy>>

\* Ok(deleted_count)
EnforceRetentionReturn(p) ==
    /\ inflight[p].pc = "loop"
    /\ inflight[p].all_settings = {}
    /\ last = None
    /\ last' = Some([call |-> Call("enforce_retention", Absent, None, Absent),
                     ret |-> RetCount(inflight[p].deleted_count),
                     published |-> <<>>])
    /\ inflight' = [inflight EXCEPT ![p] = Idle]
    /\ UNCHANGED <<types, settings, locks, now, scope, tenant_hierarchy>>

NextSweeps ==
    \/ RegisterType
    \/ UpsertSetting
    \/ DeleteSetting
    \/ Return
    \/ Tick
    \/ \E p \in Sweepers : EnforceRetentionScan(p)
    \/ \E p \in Sweepers : EnforceRetentionVisit(p)
    \/ \E p \in Sweepers : EnforceRetentionReturn(p)

SpecSweeps == InitSweeps /\ [][NextSweeps]_vars

\* the sweep of p returns in this step
SweepEnds(p) == inflight[p].pc = "loop" /\ inflight'[p] = Idle

\* C37: overlapping EnforceRetention sweeps complete without error, and
\* when the last of them has finished no soft-deleted row of a registered
\* type that was expired at the time of its scan remains in the store
C37_SweepsLeaveNoExpired ==
    [][ \A p \in Sweepers :
          SweepEnds(p) =>
            /\ Done'.ret.err = "Ok"
            /\ (\A q \in Sweepers : inflight'[q] = Idle)
               => ExpiredRows(settings', types', inflight[p].now) = {} ]_vars

-----------------------------------------------------------------------------
\* C38: DeleteSetting on a key that is already soft-deleted leaves the
\* deletion timestamp of the row unchanged
C38_DeleteKeepsDeletedAt ==
    [][ Completes =>
          LET c == Done'.call
          IN  c.op = "delete_setting" =>
                \A old \in RowsAt(settings, KeyOf(c)) :
                    old.deleted_at # None =>
                        \A new \in RowsAt(settings', KeyOf(c)) :
                            new.deleted_at = old.deleted_at ]_vars

-----------------------------------------------------------------------------
(* Object ids passed to upsert_setting: "generic" and the three strings    *)
(* that validate_domain_object_id rejects in phase2_tests.rs.              *)

OBJ_EMPTY == <<>>
OBJ_UNDERSCORE == <<"_", "i", "n", "v", "a", "l", "i", "d">>
OBJ_AT == <<"a", "p", "p", "@", "c", "o", "d", "e">>

UpsertIdScope ==
    [types |-> {GTS_A}, tenants |-> {"t1"},
     objects |-> {OBJ_GENERIC, OBJ_EMPTY, OBJ_UNDERSCORE, OBJ_AT},
     data |-> {DATA_NAME}, days |-> 0]

InitUpsertIds ==
    /\ types = {}
    /\ settings = {}
    /\ locks = [k \in {} |-> FALSE]
    /\ now = 0
    /\ last = None
    /\ scope = UpsertIdScope
    /\ inflight = <<>>
    /\ tenant_hierarchy = [t \in {} |-> None]

NextUpsertIds ==
    \/ RegisterType
    \/ UpsertSetting
    \/ GetSetting
    \/ DeleteSetting
    \/ Return

SpecUpsertIds == InitUpsertIds /\ [][NextUpsertIds]_vars

\* C39: an UpsertSetting whose object id validate_domain_object_id rejects
\* fails (with Validation, when the type is registered and nothing else
\* refuses the call first) and stores nothing, so the object id of every
\* stored setting has one of the accepted shapes
C39_UpsertValidatesObjectId ==
    [][ Completes =>
          LET c == Done'.call
              r == Done'.ret
          IN  /\ (/\ IsUpsert(c)
                  /\ validate_domain_object_id(c.domain_object_id).err # "Ok")
                 => /\ r.err # "Ok"
                    /\ settings' = settings
                    /\ (Registered(types, c.type) /\ ~LockedReadOnly(locks, KeyOf(c)))
                       => r.err = "Validation"
              /\ \A row \in settings' :
                    validate_domain_object_id(row.domain_object_id).err = "Ok" ]_vars

-----------------------------------------------------------------------------
\* C40: every tenant in a path that get_tenant_path returns successfully is
\* a tenant of the hierarchy, no tenant occurs twice, and the last element
\* is a root: a tenant whose recorded parent is not in the hierarchy yields
\* no successful path ending in that parent
C40_PathOfKnownTenants ==
    [][ \A p \in Walkers :
          (PathCompletes(p) /\ inflight'[p].ret.err = "Ok") =>
            LET path == inflight'[p].ret.path
                h == tenant_hierarchy
            IN  /\ \A i \in 1..Len(path) : path[i] \in DOMAIN h
                /\ \A i, j \in 1..Len(path) : path[i] = path[j] => i = j
                /\ path # <<>>
                /\ path[Len(path)] \in DOMAIN h => h[path[Len(path)]] = None ]_vars

====
